---- MODULE Spec2Model ----
(***************************************************************************)
(* Price tracking engine of tracker-stack.                                 *)
(*                                                                         *)
(* BaseTracker.track_price (trackers/base.py) is modelled step by step:    *)
(* one action per call into an external collaborator (source fetch, store  *)
(* read, store write, notifier send), each including the exception         *)
(* handling that follows it.  ShopeeProductsManager.track_all_products     *)
(* (trackers/shopee_manager.py) drives one track_price per listed product. *)
(*                                                                         *)
(* Python values are tagged records: [t |-> "float", n |-> 105],           *)
(* [t |-> "None", n |-> 0] and [t |-> "str", n |-> 0] for the string       *)
(* "No Data".  Prices are exact integers in price units; a threshold is a  *)
(* whole number of percent (0.05 is 5), so that the comparison             *)
(* abs((c - p) / p) >= t is computed exactly as abs(c-p)*100 >= t*abs(p).  *)
(*                                                                         *)
(* Spec is the Lambda handler under every event; SpecItem and SpecBulk are *)
(* its restrictions to single-item events and to bulk events; SpecStore is *)
(* the price store alone, written to under an unconstrained wall clock.    *)
(***************************************************************************)
EXTENDS Integers, Sequences, FiniteSets, TLC

VARIABLES
    priceTable,   \* DynamoDB price table: set of items, key (product_id, timestamp)
    now,          \* the wall clock read by datetime.now()
    ntfyLog,      \* notifications the notifier delivered, in order
    pc,           \* position of the running invocation
    tracker,      \* fields of the tracker instance (BaseTracker.__init__)
    loc,          \* locals of track_price: current_price, latest_price
    calls,        \* what the running track_price invocation has done so far
    outcome,      \* value returned by the last track_price
    batch,        \* state of track_all_products
    response,     \* value returned by the last lambda_handler / track_all_products
    url,          \* argument of ShopeeURLParser.parse_shopee_url
    parsed,       \* dictionary returned by parse_shopee_url
    apiUrl,       \* string returned by build_api_url
    source,       \* the price the external source reports at present
    changes,      \* how often the price of the external source has changed
    lost,         \* the price of a persisted change whose notification failed
    inv,          \* concurrent track_price invocations of one tracker
    raced,        \* an invocation was entered while another was running
    productsTable,\* the products table of the crawl pipeline: productId -> row
    historyTable, \* the price history table: productId -> entries, newest last
    crawlQueue,   \* the SQS queue between dispatcher and worker
    published,    \* the messages published to the SNS price topic
    tick,         \* the instant datetime.now() reads in the worker
    worker,       \* the worker Lambda: position, batch and counters
    dispatcher,   \* the dispatcher Lambda: position, scan key and counters
    catalog,      \* the products table of ShopeeProductsManager: key -> record
    addition      \* the running or finished call of add_product

\* the price tracking engine
engineVars ==
    <<priceTable, now, ntfyLog, pc, tracker, loc, calls, outcome, batch, response>>

\* the Shopee URL parser
parserVars == <<url, parsed, apiUrl>>

\* concurrent invocations of one tracker against an external source
raceVars == <<source, changes, lost, inv, raced>>

\* the crawl pipeline: dispatcher Lambda, queue, worker Lambda, its tables
pipelineVars ==
    <<productsTable, historyTable, crawlQueue, published, tick, worker, dispatcher>>

\* the products manager: its table and its add_product call
managerVars == <<catalog, addition>>

\* what the actions of the price tracking engine leave alone
otherVars == <<parserVars, raceVars, pipelineVars, managerVars>>

vars == <<engineVars, otherVars>>

----------------------------------------------------------------------------
(* Bounds of the model *)

\* the number of store writes a run of the model may attempt in all: an
\* invocation starts only while its writes still fit
MaxNow == 3

\* the largest number of active Shopee rows the products table holds
MaxProducts == 2

\* price values (in price units) the sources can report
Prices == {0, 100, 105}

\* notification thresholds an item can be configured with, in percent
ThresholdPcts == {0, 5}

ShopeeProductIds == {"p1", "p2"}

ShopIds == {"s1", "s2"}

----------------------------------------------------------------------------
(* Program constants *)

\* base.py:78  self.config.get('notification_threshold', 0.01)
DefaultThresholdPct == 1

\* shopee_manager.py:30  product.get('notification_threshold', 0.05)
ManagerDefaultThresholdPct == 5

\* shopee.py:51  float(price) / 100000
ShopeeScale == 100000

\* gold.py:32  float(price_text) / 1000
GoldScale == 1000

----------------------------------------------------------------------------
(* Python values *)

NoneV == [t |-> "None", n |-> 0]

Num(n) == [t |-> "float", n |-> n]

\* the string "No Data"
NoData == [t |-> "str", n |-> 0]

IsNum(v) == v.t = "float"

\* Python truthiness of None, a float, a non-empty string
Truthy(v) == (v.t = "float" /\ v.n # 0) \/ v.t = "str"

Abs(x) == IF x < 0 THEN -x ELSE x

\* dict.get(key, default) on a value that is NoneV when the key is absent
GetOr(v, default) == IF v = NoneV THEN default ELSE v

\* a call that returned v / a call that raised
Return(v) == [raised |-> FALSE, value |-> v]

Raise == [raised |-> TRUE, value |-> NoneV]

----------------------------------------------------------------------------
(* Identifiers: 'shopee_<id>' is the raw id under the prefix "shopee_" *)

RawId(r) == [prefix |-> "", rest |-> r]

ShopeeItemId(r) == [prefix |-> "shopee_", rest |-> r]

GoldItemId == RawId("gold_doji")

NoId == RawId("None")

----------------------------------------------------------------------------
(* Source fetchers *)

\* what the Shopee item API can answer: a transport error, a non-200 status,
\* an API error code, or status 200 with error = 0 and an item whose price
\* fields are each present (a raw amount) or absent
ShopeeRaw == {NoneV} \cup {Num(p * ShopeeScale) : p \in Prices}

ShopeeResponses ==
    [kind : {"error", "non200", "apierror"},
     price : {NoneV}, price_min : {NoneV}, price_max : {NoneV}]
    \cup
    [kind : {"ok"}, price : ShopeeRaw, price_min : ShopeeRaw, price_max : ShopeeRaw]

\* ShopeeTracker.fetch_current_price: every exception is swallowed and the
\* string "No Data" is returned in its place
ShopeeFetch(resp) ==
    IF resp.kind = "ok"
    THEN LET price == IF resp.price_max # resp.price_min
                      THEN GetOr(resp.price_min, Num(0))
                      ELSE GetOr(resp.price, Num(0))
         IN  Return(Num(price.n \div ShopeeScale))
    ELSE Return(NoData)

\* the source did not deliver a price: transport error, non-200, API error
ShopeeFetchFailed(resp) == resp.kind # "ok"

\* the item of a 200 answer lacks the price field fetch_current_price reads:
\* price_min when price_max and price_min differ, price otherwise
ShopeeFieldMissing(resp) ==
    /\ resp.kind = "ok"
    /\ IF resp.price_max # resp.price_min
       THEN resp.price_min = NoneV
       ELSE resp.price = NoneV

\* what the gold API and the gold page can answer
GoldApiResponses ==
    [kind : {"error", "non200"}, sell_price : {NoneV}]
    \cup
    [kind : {"ok"}, sell_price : {NoneV} \cup {Num(p) : p \in Prices}]

GoldPageResponses ==
    [kind : {"error", "noelement"}, digits : {NoneV}]
    \cup
    [kind : {"ok"}, digits : {Num(p * GoldScale) : p \in Prices}]

\* GoldTracker.fetch_current_price: the API first (its errors are passed
\* over), then the page; raises when neither delivers
GoldFetch(api, page) ==
    IF api.kind = "ok"
    THEN Return(Num(GetOr(api.sell_price, Num(0)).n))
    ELSE IF page.kind = "ok"
         THEN Return(Num(page.digits.n \div GoldScale))
         ELSE Raise

GoldFetchFailed(api, page) == api.kind # "ok" /\ page.kind # "ok"

\* the JSON of a 200 answer of the gold API lacks sell_price
GoldFieldMissing(api) == api.kind = "ok" /\ api.sell_price = NoneV

----------------------------------------------------------------------------
(* DynamoDBClient *)

ItemsOf(table, id) == {it \in table : it.product_id = id}

\* the item a query with ScanIndexForward=False, Limit=1 returns
NewestItem(table, id) ==
    CHOOSE it \in ItemsOf(table, id) :
        \A o \in ItemsOf(table, id) : o.timestamp <= it.timestamp

\* fault injection: a failed lookup is taken for "no observation yet"
GetLatestPriceOrNone(table, id, dbOk) ==
    IF ~dbOk \/ ItemsOf(table, id) = {} THEN Return(NoneV)
    ELSE IF IsNum(NewestItem(table, id).price)
         THEN Return(NewestItem(table, id).price)
         ELSE Raise

\* DynamoDBClient.get_latest_price; dbOk is FALSE when the query fails.
\* float() of a stored "No Data" raises, and every exception is re-raised.
GetLatestPrice(table, id, dbOk) ==
    IF ~dbOk THEN Raise
    ELSE IF ItemsOf(table, id) = {} THEN Return(NoneV)
    ELSE IF IsNum(NewestItem(table, id).price)
         THEN Return(NewestItem(table, id).price)
         ELSE Raise

\* DynamoDBClient.store_price: put_item replaces the item with the same key
StorePrice(table, id, price, metadata, ts) ==
    {it \in table : ~(it.product_id = id /\ it.timestamp = ts)}
    \cup {[product_id |-> id, timestamp |-> ts, price |-> price,
           metadata |-> metadata]}

----------------------------------------------------------------------------
(* BaseTracker helpers *)

\* fault injection: the threshold comparison made strict
ShouldNotifyStrict(current_price, previous_price, config_threshold) ==
    LET threshold == GetOr(config_threshold, Num(DefaultThresholdPct)).n
    IN  IF ~IsNum(current_price) \/ ~IsNum(previous_price) THEN Raise
        ELSE IF previous_price.n = 0 THEN Raise
        ELSE Return(Abs(current_price.n - previous_price.n) * 100
                        > threshold * Abs(previous_price.n))

\* fault injection: the threshold comparison turned around
ShouldNotifyInverted(current_price, previous_price, config_threshold) ==
    LET threshold == GetOr(config_threshold, Num(DefaultThresholdPct)).n
    IN  IF ~IsNum(current_price) \/ ~IsNum(previous_price) THEN Raise
        ELSE IF previous_price.n = 0 THEN Raise
        ELSE Return(Abs(current_price.n - previous_price.n) * 100
                        <= threshold * Abs(previous_price.n))

\* BaseTracker.should_notify.  The subtraction raises TypeError on a string,
\* the division raises ZeroDivisionError on a zero previous price.
ShouldNotify(current_price, previous_price, config_threshold) ==
    LET threshold == GetOr(config_threshold, Num(DefaultThresholdPct)).n
    IN  IF ~IsNum(current_price) \/ ~IsNum(previous_price) THEN Raise
        ELSE IF previous_price.n = 0 THEN Raise
        ELSE Return(Abs(current_price.n - previous_price.n) * 100
                        >= threshold * Abs(previous_price.n))

\* fault injection: a first observation counts as a change
NotifyConditionFirstIsChange(current_price, latest_price, config_threshold) ==
    IF latest_price = NoneV THEN Return(TRUE)
    ELSE IF ~Truthy(latest_price) THEN Return(FALSE)
    ELSE ShouldNotify(current_price, latest_price, config_threshold)

\* the condition of the if statement in track_price:
\*     latest_price and self.should_notify(current_price, latest_price)
NotifyCondition(current_price, latest_price, config_threshold) ==
    IF ~Truthy(latest_price) THEN Return(FALSE)
    ELSE ShouldNotify(current_price, latest_price, config_threshold)

\* BaseTracker.send_price_change_notification: the rendered message (the
\* percentage text is a function of previous and current and is left out)
PriceAlert(product_name, old_price, new_price) ==
    [direction |-> IF new_price.n > old_price.n THEN "up" ELSE "down",
     product_name |-> product_name,
     previous |-> old_price,
     current |-> new_price]

\* BaseTracker.get_metadata
Metadata(trk) == [tracker_type |-> trk.cls]

\* the two dictionaries track_price returns; error is "" or names the
\* call whose exception str(e) reports
Outcome200(product_id, current_price, latest_price, price_changed) ==
    [statusCode |-> 200, product_id |-> product_id,
     current_price |-> current_price, previous_price |-> latest_price,
     price_changed |-> price_changed, error |-> ""]

Outcome500(product_id, error) ==
    [statusCode |-> 500, product_id |-> product_id,
     current_price |-> NoneV, previous_price |-> NoneV,
     price_changed |-> FALSE, error |-> error]

----------------------------------------------------------------------------
(* Inputs *)

\* an absent dictionary key / a None identifier
Absent == "None"

ConfigThresholds == {NoneV} \cup {Num(t) : t \in ThresholdPcts}

\* events lambda_handler is invoked with
Events ==
    [tracker_type : {"gold", "shopee", "shopee_bulk", "amazon"},
     product_id : ShopeeProductIds \cup {Absent},
     shop_id : {"s1", Absent},
     notification_threshold : ConfigThresholds]

\* rows of the products table that match the filter of get_shopee_products
\* (status active, tracker_type shopee): every product id in the first
\* shop, one product id in every shop, and one row each without product id
\* and without shop id
ProductRows ==
    [shopee_product_id : ShopeeProductIds \cup {Absent}, shop_id : {"s1"},
     product_name : {"item"}, notification_threshold : {NoneV}]
    \cup
    [shopee_product_id : {"p1"}, shop_id : ShopIds \cup {Absent},
     product_name : {"item"}, notification_threshold : {NoneV}]

RECURSIVE SeqsUpTo(_, _)
\* the sequences over S of length at most n
SeqsUpTo(S, n) ==
    IF n = 0 THEN {<<>>}
    ELSE SeqsUpTo(S, n - 1)
         \cup {Append(q, x) : q \in {r \in SeqsUpTo(S, n - 1) : Len(r) = n - 1}, x \in S}

\* the matching rows of the products table, in scan order
ProductLists == SeqsUpTo(ProductRows, MaxProducts)

\* the answer of products_table.scan to a request without ExclusiveStartKey:
\* the first cut matching rows, and a LastEvaluatedKey when the scan stopped
\* before the end of the table
ScanResponse(matching, cut) ==
    [Items |-> SubSeq(matching, 1, cut),
     LastEvaluatedKey |-> cut < Len(matching)]

\* DynamoDBClient.get_shopee_products: one scan request,
\*     return response.get('Items', [])
GetShopeeProducts(scan) == scan.Items

\* how a notifier send can end: delivered, reported as failed, or an exception
NtfyResults == {"ok", "failed", "raise"}

----------------------------------------------------------------------------
(* State *)

NoTracker ==
    [cls |-> "none", product_id |-> NoId, threshold |-> NoneV,
     shop_id |-> Absent, product_name |-> ""]

NoLocals == [current_price |-> NoneV, latest_price |-> NoneV]

\* calls counts the collaborator calls of the running track_price and keeps
\* which of them failed (fetchFailed: the source delivered no price;
\* readFailed, writeFailed: the store call failed; readRaised:
\* get_latest_price raised; notifyFailed: the send did not deliver;
\* fieldMissing: the source answered without the price field), the
\* number of observations the item had when track_price was entered, the
\* prices passed to store_price and the items this invocation put into the
\* table
NoCalls ==
    [fetch |-> 0, read |-> 0, write |-> 0, notify |-> 0,
     fetchFailed |-> FALSE, fieldMissing |-> FALSE,
     readFailed |-> FALSE, readRaised |-> FALSE,
     writeFailed |-> FALSE, notifyFailed |-> FALSE, prior |-> 0,
     put |-> <<>>, stored |-> {}]

NoOutcome == [Outcome500(NoId, "") EXCEPT !.statusCode = 0]

\* listed: get_shopee_products returned; unlisted: how many matching rows of
\* the products table lie on the pages after the one the scan answered with;
\* history: per result, what happened while that product was processed
NoBatch ==
    [state |-> "none", listed |-> FALSE, unlisted |-> 0, products |-> <<>>,
     i |-> 0, results |-> <<>>, history |-> <<>>]

NoResponse == [statusCode |-> 0, error |-> "", results |-> <<>>]

NoParse == [called |-> FALSE, success |-> FALSE, shop_id |-> <<>>, product_id |-> <<>>]

EngineInit ==
    /\ priceTable = {}
    /\ now = 0
    /\ ntfyLog = <<>>
    /\ pc = "idle"
    /\ tracker = NoTracker
    /\ loc = NoLocals
    /\ calls = NoCalls
    /\ outcome = NoOutcome
    /\ batch = NoBatch
    /\ response = NoResponse

\* nothing has been parsed
ParserIdle ==
    /\ url = <<>>
    /\ parsed = NoParse
    /\ apiUrl = <<>>

\* the invocations of track_price that can run side by side
Procs == {1, 2}

\* an invocation that has not been entered: its position, its locals, the
\* lost price (if any) at its entry, whether its send delivered or failed
NoInvocation ==
    [pc |-> "idle", current_price |-> NoneV, latest_price |-> NoneV,
     retry |-> NoneV, notified |-> FALSE, notifyFailed |-> FALSE]

\* no invocation is running side by side with another
RaceIdle ==
    /\ source = 0
    /\ changes = 0
    /\ lost = NoneV
    /\ inv = [p \in Procs |-> NoInvocation]
    /\ raced = FALSE

\* the productIds of the products table: a registered Shopee product and the
\* row the worker keeps for the gold price
ProductIds == {"p1", "gold-price"}

\* no row under a productId
NoRow == [url |-> "", lastPrice |-> NoneV, lastCheckedAt |-> 0, present |-> FALSE]

\* the worker before an invocation
NoWorker ==
    [pc |-> "idle", records |-> <<>>, i |-> 0, processed |-> 0, errors |-> 0,
     statusCode |-> 0]

\* the dispatcher before an invocation
NoDispatcher ==
    [pc |-> "idle", lastKey |-> 0, goldSends |-> 0, gold |-> 0, enqueued |-> 0,
     statusCode |-> 0, pages |-> 0, attempted |-> <<>>, accepted |-> 0]

\* the crawl pipeline has not run and holds nothing
PipelineIdle ==
    /\ productsTable = [id \in ProductIds |-> NoRow]
    /\ historyTable = [id \in ProductIds |-> <<>>]
    /\ crawlQueue = <<>>
    /\ published = <<>>
    /\ tick = 0
    /\ worker = NoWorker
    /\ dispatcher = NoDispatcher

\* the keys of the rows add_product writes
ProductKeys == {"shopee_" \o id : id \in ShopeeProductIds}

\* no record under a key of the products table
NoProduct ==
    [present |-> FALSE, tracker_type |-> "", shopee_product_id |-> Absent,
     shop_id |-> Absent, product_name |-> Absent,
     notification_threshold |-> NoneV, status |-> ""]

NoResult == [statusCode |-> 0, error |-> "", product_id |-> Absent]

\* add_product before it is called
NoAddition ==
    [pc |-> "idle", product_data |-> NoProduct, result |-> NoResult,
     storeCalls |-> 0, storeOk |-> TRUE, before |-> <<>>]

\* the products manager has not been used and its table is empty
ManagerIdle ==
    /\ catalog = [key \in ProductKeys |-> NoProduct]
    /\ addition = NoAddition

Init ==
    /\ EngineInit
    /\ ParserIdle
    /\ RaceIdle
    /\ PipelineIdle
    /\ ManagerIdle

----------------------------------------------------------------------------
(* Tracker construction *)

\* GoldTracker.__init__
GoldTracker(config_threshold) ==
    [cls |-> "GoldTracker", product_id |-> GoldItemId,
     threshold |-> config_threshold, shop_id |-> Absent,
     product_name |-> "DOJI Gold Price (VND)"]

\* ShopeeTracker.__init__
ShopeeTracker(product_id, shop_id, product_name, config_threshold) ==
    [cls |-> "ShopeeTracker", product_id |-> ShopeeItemId(product_id),
     threshold |-> config_threshold, shop_id |-> shop_id,
     product_name |-> product_name]

\* entry of track_price on a freshly built tracker
Begin(trk) ==
    /\ tracker' = trk
    /\ loc' = NoLocals
    /\ calls' = [NoCalls EXCEPT
                     !.prior = Cardinality(ItemsOf(priceTable, trk.product_id))]
    /\ outcome' = NoOutcome
    /\ pc' = "fetch"

\* track_price returns o
Finish(o) ==
    /\ outcome' = o
    /\ pc' = "done"

----------------------------------------------------------------------------
(* BaseTracker.track_price, one action per collaborator call *)

\* current_price = self.fetch_current_price(), ShopeeTracker
FetchShopee ==
    /\ pc = "fetch"
    /\ tracker.cls = "ShopeeTracker"
    /\ \E resp \in ShopeeResponses :
          LET r == ShopeeFetch(resp)
          IN  /\ calls' = [calls EXCEPT !.fetch = @ + 1,
                                        !.fetchFailed = ShopeeFetchFailed(resp),
                                        !.fieldMissing = ShopeeFieldMissing(resp)]
              /\ IF r.raised
                 THEN /\ Finish(Outcome500(tracker.product_id, "fetch"))
                      /\ UNCHANGED loc
                 ELSE /\ loc' = [loc EXCEPT !.current_price = r.value]
                      /\ pc' = "read"
                      /\ UNCHANGED outcome
    /\ UNCHANGED <<priceTable, now, ntfyLog, tracker, batch, response>>
    /\ UNCHANGED otherVars

\* current_price = self.fetch_current_price(), GoldTracker
FetchGold ==
    /\ pc = "fetch"
    /\ tracker.cls = "GoldTracker"
    /\ \E api \in GoldApiResponses, page \in GoldPageResponses :
          LET r == GoldFetch(api, page)
          IN  /\ calls' = [calls EXCEPT !.fetch = @ + 1,
                                        !.fetchFailed = GoldFetchFailed(api, page),
                                        !.fieldMissing = GoldFieldMissing(api)]
              /\ IF r.raised
                 THEN /\ Finish(Outcome500(tracker.product_id, "fetch"))
                      /\ UNCHANGED loc
                 ELSE /\ loc' = [loc EXCEPT !.current_price = r.value]
                      /\ pc' = "read"
                      /\ UNCHANGED outcome
    /\ UNCHANGED <<priceTable, now, ntfyLog, tracker, batch, response>>
    /\ UNCHANGED otherVars

\* latest_price = self.get_latest_price()
ReadLatest ==
    /\ pc = "read"
    /\ \E dbOk \in BOOLEAN :
          LET r == GetLatestPrice(priceTable, tracker.product_id, dbOk)
          IN  /\ calls' = [calls EXCEPT !.read = @ + 1, !.readFailed = ~dbOk,
                                        !.readRaised = r.raised]
              /\ IF r.raised
                 THEN /\ Finish(Outcome500(tracker.product_id, "read"))
                      /\ UNCHANGED loc
                 ELSE /\ loc' = [loc EXCEPT !.latest_price = r.value]
                      /\ pc' = "write"
                      /\ UNCHANGED outcome
    /\ UNCHANGED <<priceTable, now, ntfyLog, tracker, batch, response>>
    /\ UNCHANGED otherVars

\* fault injection: an unchanged price is not written
StorePriceDataIfChanged(table, trk, current_price, latest_price, ts) ==
    IF current_price = latest_price THEN table
    ELSE StorePrice(table, trk.product_id, current_price, Metadata(trk), ts)

\* BaseTracker.store_price_data: the table after the put_item of this
\* invocation (the put is attempted whatever the two prices are)
StorePriceData(table, trk, current_price, latest_price, ts) ==
    StorePrice(table, trk.product_id, current_price, Metadata(trk), ts)

\* fault injection: a failed store write is logged and track_price goes on
WritePriceIgnoringFailure ==
    /\ pc = "write"
    /\ \E dbOk \in BOOLEAN :
          /\ calls' = [calls EXCEPT
                 !.write = @ + 1,
                 !.writeFailed = ~dbOk,
                 !.put = Append(@, loc.current_price),
                 !.stored = IF dbOk
                            THEN StorePriceData(priceTable, tracker, loc.current_price,
                                                loc.latest_price, now) \ priceTable
                            ELSE @]
          /\ IF dbOk
             THEN /\ priceTable' = StorePriceData(priceTable, tracker, loc.current_price,
                                                  loc.latest_price, now)
                  /\ now' = now + 1
             ELSE UNCHANGED <<priceTable, now>>
          /\ pc' = "check"
          /\ UNCHANGED outcome
    /\ UNCHANGED <<ntfyLog, tracker, loc, batch, response>>
    /\ UNCHANGED otherVars

\* fault injection: the previous value is looked up after the write
WritePriceThenRead ==
    /\ pc = "write"
    /\ \E dbOk \in BOOLEAN :
          /\ calls' = [calls EXCEPT
                 !.write = @ + 1,
                 !.writeFailed = ~dbOk,
                 !.put = Append(@, loc.current_price),
                 !.stored = IF dbOk
                            THEN StorePriceData(priceTable, tracker, loc.current_price,
                                                loc.latest_price, now) \ priceTable
                            ELSE @]
          /\ IF dbOk
             THEN /\ priceTable' = StorePriceData(priceTable, tracker, loc.current_price,
                                                  loc.latest_price, now)
                  /\ now' = now + 1
                  /\ loc' = [loc EXCEPT !.latest_price = loc.current_price]
                  /\ pc' = "check"
                  /\ UNCHANGED outcome
             ELSE /\ Finish(Outcome500(tracker.product_id, "write"))
                  /\ UNCHANGED <<priceTable, now, loc>>
    /\ UNCHANGED <<ntfyLog, tracker, batch, response>>
    /\ UNCHANGED otherVars

\* self.store_price_data(current_price); the clock moves on after each
\* datetime.now() that stamped a stored item
WritePrice ==
    /\ pc = "write"
    /\ \E dbOk \in BOOLEAN :
          /\ calls' = [calls EXCEPT
                 !.write = @ + 1,
                 !.writeFailed = ~dbOk,
                 !.put = Append(@, loc.current_price),
                 !.stored = IF dbOk
                            THEN StorePriceData(priceTable, tracker, loc.current_price,
                                                loc.latest_price, now) \ priceTable
                            ELSE @]
          /\ IF dbOk
             THEN /\ priceTable' = StorePriceData(priceTable, tracker, loc.current_price,
                                                  loc.latest_price, now)
                  /\ now' = now + 1
                  /\ pc' = "check"
                  /\ UNCHANGED outcome
             ELSE /\ Finish(Outcome500(tracker.product_id, "write"))
                  /\ UNCHANGED <<priceTable, now>>
    /\ UNCHANGED <<ntfyLog, tracker, loc, batch, response>>
    /\ UNCHANGED otherVars

\* if latest_price and self.should_notify(current_price, latest_price)
CheckChange ==
    /\ pc = "check"
    /\ LET c == NotifyCondition(loc.current_price, loc.latest_price, tracker.threshold)
       IN  IF c.raised
           THEN Finish(Outcome500(tracker.product_id, "should_notify"))
           ELSE IF c.value
                THEN pc' = "notify" /\ UNCHANGED outcome
                ELSE Finish(Outcome200(tracker.product_id, loc.current_price,
                                       loc.latest_price, FALSE))
    /\ UNCHANGED <<priceTable, now, ntfyLog, tracker, loc, calls, batch, response>>
    /\ UNCHANGED otherVars

\* fault injection: the notification is sent outside the try block, an
\* exception of the notifier leaves track_price and nothing is returned
AfterNotificationUnguarded(trk, l, res) ==
    IF res = "raise"
    THEN NoOutcome
    ELSE Outcome200(trk.product_id, l.current_price, l.latest_price, TRUE)

\* what track_price returns after self.send_price_change_notification ended
\* with res
AfterNotification(trk, l, res) ==
    IF res = "raise"
    THEN Outcome500(trk.product_id, "notify")
    ELSE Outcome200(trk.product_id, l.current_price, l.latest_price, TRUE)

\* fault injection: a send that did not deliver is tried again
NotifyRetrying ==
    /\ pc = "notify"
    /\ \E res \in NtfyResults :
          /\ calls' = [calls EXCEPT !.notify = @ + 1, !.notifyFailed = res # "ok"]
          /\ ntfyLog' = IF res = "ok"
                        THEN Append(ntfyLog,
                                 [message |-> PriceAlert(tracker.product_name,
                                                         loc.latest_price,
                                                         loc.current_price),
                                  topic |-> tracker.product_id])
                        ELSE ntfyLog
          /\ IF res = "ok"
             THEN Finish(AfterNotification(tracker, loc, res))
             ELSE UNCHANGED <<pc, outcome>>
    /\ UNCHANGED <<priceTable, now, tracker, loc, batch, response>>
    /\ UNCHANGED otherVars

\* self.send_price_change_notification(latest_price, current_price)
Notify ==
    /\ pc = "notify"
    /\ \E res \in NtfyResults :
          /\ calls' = [calls EXCEPT !.notify = @ + 1, !.notifyFailed = res # "ok"]
          /\ ntfyLog' = IF res = "ok"
                        THEN Append(ntfyLog,
                                 [message |-> PriceAlert(tracker.product_name,
                                                         loc.latest_price,
                                                         loc.current_price),
                                  topic |-> tracker.product_id])
                        ELSE ntfyLog
          /\ Finish(AfterNotification(tracker, loc, res))
    /\ UNCHANGED <<priceTable, now, tracker, loc, batch, response>>
    /\ UNCHANGED otherVars

----------------------------------------------------------------------------
(* lambdas/tracker_stack_handler.py *)

ErrorResponse(error) == [statusCode |-> 500, error |-> error, results |-> <<>>]

\* the keys of TRACKER_REGISTRY
TrackerRegistry == {"gold", "shopee"}

\* fault injection: a type that needs a product id passes for registered
HandlerRejectsUnregistered(event) ==
    IF event.tracker_type \notin TrackerRegistry \cup {"amazon", "ebay"}
    THEN "Unknown tracker type: " \o event.tracker_type
    ELSE IF event.tracker_type # "gold" /\ event.product_id = Absent
    THEN "product_id is required"
    ELSE IF event.tracker_type = "gold" /\ event.product_id # Absent
    THEN "TypeError"
    ELSE ""

\* why lambda_handler raises before it has a tracker, "" when it does not
HandlerRejects(event) ==
    IF event.tracker_type \notin TrackerRegistry
    THEN "Unknown tracker type: " \o event.tracker_type
    ELSE IF event.tracker_type = "shopee" /\ event.product_id = Absent
    THEN "product_id is required"
    ELSE IF event.tracker_type = "gold" /\ event.product_id # Absent
    THEN "TypeError"    \* GoldTracker(product_id, config): one argument too many
    ELSE ""

\* tracker_class(product_id, config) / tracker_class(config)
HandlerTracker(event) ==
    IF event.tracker_type = "gold"
    THEN GoldTracker(event.notification_threshold)
    ELSE ShopeeTracker(event.product_id, event.shop_id, "Shopee Product",
                       event.notification_threshold)

\* lambda_handler ending in its except clause: the event is rejected or the
\* tracker's clients cannot be constructed
LambdaHandlerError ==
    /\ pc = "idle"
    /\ \E event \in Events :
          /\ event.tracker_type # "shopee_bulk"
          /\ \/ /\ HandlerRejects(event) # ""
                /\ response' = ErrorResponse(HandlerRejects(event))
             \/ /\ HandlerRejects(event) = ""
                /\ response' = ErrorResponse("client construction")
    /\ pc' = "returned"
    /\ UNCHANGED <<priceTable, now, ntfyLog, tracker, loc, calls, outcome, batch>>
    /\ UNCHANGED otherVars

\* lambda_handler building a tracker and entering track_price
LambdaHandlerTrack ==
    /\ pc = "idle"
    /\ now + 1 <= MaxNow
    /\ \E event \in Events :
          /\ event.tracker_type # "shopee_bulk"
          /\ HandlerRejects(event) = ""
          /\ Begin(HandlerTracker(event))
    /\ UNCHANGED <<priceTable, now, ntfyLog, batch, response>>
    /\ UNCHANGED otherVars

\* lambda_handler returning the result of track_price
LambdaHandlerReturn ==
    /\ pc = "done"
    /\ batch.state # "running"
    /\ response' = [statusCode |-> outcome.statusCode, error |-> outcome.error,
                    results |-> <<outcome>>]
    /\ pc' = "returned"
    /\ UNCHANGED <<priceTable, now, ntfyLog, tracker, loc, calls, outcome, batch>>
    /\ UNCHANGED otherVars

----------------------------------------------------------------------------
(* ShopeeProductsManager.track_all_products *)

\* result['product_name'] = product.get('product_name', '')
WithName(o, product_name) ==
    [statusCode |-> o.statusCode, product_id |-> o.product_id,
     product_name |-> product_name, current_price |-> o.current_price,
     previous_price |-> o.previous_price, price_changed |-> o.price_changed,
     error |-> o.error]

\* the dictionary the per-product except clause appends
ItemError(product) ==
    WithName(Outcome500(RawId(product.shopee_product_id), "item"),
             product.product_name)

\* fault injection: a listing failure returns the empty result list
ListingFailureDropped == <<>>

\* the list returned when get_shopee_products raises
ListingFailure ==
    <<WithName(Outcome500(NoId, "Failed to fetch products"), "")>>

\* fault injection: a result is put in front of the list
CollectInFront(results, result) == <<result>> \o results

\* results.append(result)
Collect(results, result) == Append(results, result)

\* product['shopee_product_id'] and product['shop_id'] raise KeyError
WellFormed(product) ==
    product.shopee_product_id # Absent /\ product.shop_id # Absent

\* what the history keeps of a processed product
Processed(c, built) ==
    [built |-> built, fetchFailed |-> c.fetchFailed, prior |-> c.prior,
     otherFailed |-> ~built \/ c.readFailed \/ c.writeFailed \/ c.notifyFailed]

\* handle_shopee_bulk_tracking up to the product listing: the manager
\* cannot be constructed, get_shopee_products raises, or it returns products
HandleShopeeBulk ==
    /\ pc = "idle"
    /\ \/ /\ response' = ErrorResponse("client construction")
          /\ pc' = "returned"
          /\ UNCHANGED batch
       \/ /\ batch' = [NoBatch EXCEPT !.state = "returned",
                                      !.results = ListingFailure]
          /\ response' = [statusCode |-> 200, error |-> "",
                          results |-> ListingFailure]
          /\ pc' = "returned"
       \/ \E matching \in ProductLists :
             \E cut \in 0..Len(matching) :
                LET products == GetShopeeProducts(ScanResponse(matching, cut))
                IN  /\ now + Len(products) <= MaxNow
                    /\ batch' = [NoBatch EXCEPT
                                    !.state = "running", !.listed = TRUE,
                                    !.unlisted = Len(matching) - cut,
                                    !.products = products, !.i = 1]
             /\ pc' = "loop"
             /\ UNCHANGED response
    /\ UNCHANGED <<priceTable, now, ntfyLog, tracker, loc, calls, outcome>>
    /\ UNCHANGED otherVars

\* the loop body up to tracker.track_price(), for a product whose tracker
\* can be built
BatchTrack ==
    /\ pc = "loop"
    /\ batch.i <= Len(batch.products)
    /\ LET product == batch.products[batch.i]
       IN  /\ WellFormed(product)
           /\ Begin(ShopeeTracker(product.shopee_product_id, product.shop_id,
                                  product.product_name,
                                  GetOr(product.notification_threshold,
                                        Num(ManagerDefaultThresholdPct))))
    /\ UNCHANGED <<priceTable, now, ntfyLog, batch, response>>
    /\ UNCHANGED otherVars

\* the per-product except clause: a KeyError of the product row or a
\* failure to construct the tracker's clients
BatchItemError ==
    /\ pc = "loop"
    /\ batch.i <= Len(batch.products)
    /\ LET product == batch.products[batch.i]
       IN  batch' = [batch EXCEPT
                        !.results = Collect(@, ItemError(product)),
                        !.history = Append(@, Processed(NoCalls, FALSE)),
                        !.i = @ + 1]
    /\ UNCHANGED <<priceTable, now, ntfyLog, pc, tracker, loc, calls, outcome, response>>
    /\ UNCHANGED otherVars

\* the loop body after tracker.track_price() returned
BatchCollect ==
    /\ pc = "done"
    /\ batch.state = "running"
    /\ batch' = [batch EXCEPT
                    !.results = Collect(@, WithName(outcome,
                                     batch.products[batch.i].product_name)),
                    !.history = Append(@, Processed(calls, TRUE)),
                    !.i = @ + 1]
    /\ pc' = "loop"
    /\ tracker' = NoTracker
    /\ loc' = NoLocals
    /\ calls' = NoCalls
    /\ outcome' = NoOutcome
    /\ UNCHANGED <<priceTable, now, ntfyLog, response>>
    /\ UNCHANGED otherVars

\* return results, and handle_shopee_bulk_tracking wrapping them
BatchReturn ==
    /\ pc = "loop"
    /\ batch.i > Len(batch.products)
    /\ batch' = [batch EXCEPT !.state = "returned"]
    /\ response' = [statusCode |-> 200, error |-> "", results |-> batch.results]
    /\ pc' = "returned"
    /\ UNCHANGED <<priceTable, now, ntfyLog, tracker, loc, calls, outcome>>
    /\ UNCHANGED otherVars

\* the Lambda invocation is over: nothing of it survives but the store and
\* what the notifier delivered
Exit ==
    /\ pc = "returned"
    /\ pc' = "idle"
    /\ tracker' = NoTracker
    /\ loc' = NoLocals
    /\ calls' = NoCalls
    /\ outcome' = NoOutcome
    /\ batch' = NoBatch
    /\ response' = NoResponse
    /\ UNCHANGED <<priceTable, now, ntfyLog>>
    /\ UNCHANGED otherVars

----------------------------------------------------------------------------

Next ==
    \/ LambdaHandlerError
    \/ LambdaHandlerTrack
    \/ LambdaHandlerReturn
    \/ HandleShopeeBulk
    \/ BatchTrack
    \/ BatchItemError
    \/ BatchCollect
    \/ BatchReturn
    \/ Exit
    \/ FetchShopee
    \/ FetchGold
    \/ ReadLatest
    \/ WritePrice
    \/ CheckChange
    \/ Notify

Spec == Init /\ [][Next]_vars

\* lambda_handler invoked with events for a single item only
NextItem ==
    \/ LambdaHandlerError
    \/ LambdaHandlerTrack
    \/ LambdaHandlerReturn
    \/ Exit
    \/ FetchShopee
    \/ FetchGold
    \/ ReadLatest
    \/ WritePrice
    \/ CheckChange
    \/ Notify

SpecItem == Init /\ [][NextItem]_vars

\* lambda_handler invoked with shopee_bulk events, and with events it
\* rejects, only
NextBulk ==
    \/ LambdaHandlerError
    \/ HandleShopeeBulk
    \/ BatchTrack
    \/ BatchItemError
    \/ BatchCollect
    \/ BatchReturn
    \/ Exit
    \/ FetchShopee
    \/ ReadLatest
    \/ WritePrice
    \/ CheckChange
    \/ Notify

SpecBulk == Init /\ [][NextBulk]_vars

----------------------------------------------------------------------------
(* The price store under a wall clock that is free to stand still or to go
   back between two writes *)

\* the items written to in this specification
StoreIds == {GoldItemId, ShopeeItemId("p1")}

\* DynamoDBClient.store_price(product_id, price, metadata) succeeding while
\* datetime.now() reads t, whatever it read at the write before; calls keeps
\* the item of this write
StorePriceAt ==
    /\ pc = "idle"
    /\ \E id \in StoreIds, price \in Prices, t \in 0..(MaxNow - 1) :
          /\ priceTable' = StorePrice(priceTable, id, Num(price),
                                      [tracker_type |-> "none"], t)
          /\ now' = t
          /\ calls' = [NoCalls EXCEPT
                          !.write = 1,
                          !.prior = Cardinality(ItemsOf(priceTable, id)),
                          !.put = <<Num(price)>>,
                          !.stored = {[product_id |-> id, timestamp |-> t,
                                       price |-> Num(price),
                                       metadata |-> [tracker_type |-> "none"]]}]
    /\ UNCHANGED <<ntfyLog, pc, tracker, loc, outcome, batch, response>>
    /\ UNCHANGED otherVars

SpecStore == Init /\ [][StorePriceAt]_vars

----------------------------------------------------------------------------
(* Properties *)

\* the threshold in force for the running tracker, in percent
ThresholdPct == GetOr(tracker.threshold, Num(DefaultThresholdPct)).n

\* the running track_price has returned
Returned == pc = "done"

\* the fetch of the running invocation delivered a price
FetchSucceeded == calls.fetch = 1 /\ ~calls.fetchFailed

\* the previous-value read of the running invocation returned
ReadSucceeded == calls.read = 1 /\ ~calls.readFailed /\ ~calls.readRaised

\* the store write of the running invocation was performed
WriteSucceeded == calls.write = 1 /\ ~calls.writeFailed

\* C1: whenever the fetch of the current price fails, track_price returns an
\* error outcome and performs no store write and no notifier send.
C1_FetchFailureNoSideEffects ==
    calls.fetchFailed =>
        /\ calls.write = 0
        /\ calls.notify = 0
        /\ Returned => outcome.statusCode = 500

\* C1, GoldTracker alone: a failed gold fetch has no side effects
GoldFetchFailureNoSideEffects ==
    (tracker.cls = "GoldTracker" /\ calls.fetchFailed) =>
        /\ calls.write = 0
        /\ calls.notify = 0
        /\ Returned => outcome.statusCode = 500

\* C2: when fetch, previous-value read and store write succeed and the
\* previous value p is present and non-zero, a notification is sent if and
\* only if abs((c - p) / p) >= t.
C2_NotifyIffThreshold ==
    (/\ Returned
     /\ FetchSucceeded /\ ReadSucceeded /\ WriteSucceeded
     /\ IsNum(loc.latest_price) /\ loc.latest_price.n # 0)
    => (calls.notify = 1 <=>
            Abs(loc.current_price.n - loc.latest_price.n) * 100
                >= ThresholdPct * Abs(loc.latest_price.n))

\* a change of exactly the threshold (100 -> 105 at 5 percent) was notified
C2_Witness ==
    /\ Returned
    /\ FetchSucceeded /\ ReadSucceeded /\ WriteSucceeded
    /\ loc.latest_price = Num(100) /\ loc.current_price = Num(105)
    /\ ThresholdPct = 5
    /\ calls.notify = 1

\* a change just below the threshold (105 -> 100 at 5 percent) was not
C2_WitnessBelow ==
    /\ Returned
    /\ FetchSucceeded /\ ReadSucceeded /\ WriteSucceeded
    /\ loc.latest_price = Num(105) /\ loc.current_price = Num(100)
    /\ ThresholdPct = 5
    /\ calls.notify = 0

\* C3: for an item with no prior observation track_price never calls the
\* notifier, and the first successful track returns price_changed = false
\* with previous_price absent after exactly one store write.
C3_FirstObservationIsBaseline ==
    calls.prior = 0 =>
        /\ calls.notify = 0
        /\ (Returned /\ FetchSucceeded /\ ReadSucceeded /\ WriteSucceeded) =>
              /\ outcome.statusCode = 200
              /\ outcome.price_changed = FALSE
              /\ outcome.previous_price = NoneV
              /\ calls.write = 1
              /\ Cardinality(ItemsOf(priceTable, tracker.product_id)) = 1

\* a first successful track of an item returned
C3_Witness ==
    /\ Returned
    /\ calls.prior = 0
    /\ FetchSucceeded /\ ReadSucceeded /\ WriteSucceeded
    /\ outcome.statusCode = 200
    /\ outcome.current_price = Num(105)
    /\ ThresholdPct = 0

\* C4: every track_price whose fetch succeeds and whose previous-value read
\* does not fail calls store_price exactly once, with the fetched value; the
\* put that succeeds adds exactly one observation, holding the fetched
\* value, whether or not the value changed or a notification is due.
C4_FetchedValueIsPersisted ==
    (Returned /\ FetchSucceeded /\ ReadSucceeded) =>
        /\ calls.write = 1
        /\ calls.put = <<loc.current_price>>
        /\ ~calls.writeFailed =>
              /\ calls.stored \subseteq priceTable
              /\ Cardinality(calls.stored) = 1
              /\ \A it \in calls.stored :
                    /\ it.product_id = tracker.product_id
                    /\ it.price = loc.current_price
              /\ Cardinality(ItemsOf(priceTable, tracker.product_id))
                    = calls.prior + 1

\* an unchanged value (100 after 100, below any change) was written again
C4_Witness ==
    /\ Returned
    /\ FetchSucceeded /\ ReadSucceeded /\ WriteSucceeded
    /\ loc.latest_price = Num(100) /\ loc.current_price = Num(100)
    /\ calls.notify = 0
    /\ Cardinality(ItemsOf(priceTable, tracker.product_id)) = 2

\* C5: if the latest-value lookup fails, track_price returns an error
\* outcome, writes nothing, sends nothing, and does not take the item for
\* one that has no observation yet.
C5_ReadFailureIsError ==
    calls.readFailed =>
        /\ calls.write = 0
        /\ calls.notify = 0
        /\ calls.stored = {}
        /\ pc \in {"done", "returned"}
        /\ outcome.statusCode = 500
        /\ outcome.error = "read"

\* the lookup failed for an item that has an observation, after a
\* successful fetch
C5_Witness ==
    /\ Returned
    /\ FetchSucceeded
    /\ calls.readFailed
    /\ calls.prior = 1
    /\ outcome.statusCode = 500

\* C6: if the notifier send fails after fetch and store write succeeded,
\* track_price still returns status 200 and the observation it wrote
\* remains in the store.
C6_NotifierFailureIsBestEffort ==
    (Returned /\ FetchSucceeded /\ WriteSucceeded /\ calls.notifyFailed) =>
        /\ outcome.statusCode = 200
        /\ calls.stored # {}
        /\ calls.stored \subseteq priceTable

\* C6, the part the code keeps: the observation stays in the store
NotifierFailureKeepsObservation ==
    (Returned /\ FetchSucceeded /\ WriteSucceeded /\ calls.notifyFailed) =>
        /\ calls.stored # {}
        /\ calls.stored \subseteq priceTable

\* track_all_products has returned the results of a listing that succeeded
BatchDone == batch.state = "returned" /\ batch.listed

\* every collaborator call made for the product of result j succeeded
AllSucceeded(j) ==
    ~batch.history[j].fetchFailed /\ ~batch.history[j].otherFailed

\* C7: for track_all_products over N products where the price fetch of
\* product k fails and every collaborator call for the other products
\* succeeds, there are N outcomes, that of product k is an error and every
\* other one has status 200.
C7_BatchFetchFailureIsolated ==
    BatchDone =>
        \A k \in 1..Len(batch.history) :
            (/\ batch.history[k].fetchFailed
             /\ \A j \in 1..Len(batch.history) : j # k => AllSucceeded(j))
            => /\ Len(batch.results) = Len(batch.products)
               /\ batch.results[k].statusCode = 500
               /\ \A j \in 1..Len(batch.results) :
                     j # k => batch.results[j].statusCode = 200

\* C8: when listing returns N products, track_all_products returns exactly
\* N outcomes and the i-th outcome belongs to the i-th listed product,
\* whatever fails for single products.
C8_BatchOrderPreserved ==
    /\ (batch.state = "running" /\ pc = "loop") =>
          Len(batch.results) = batch.i - 1
    /\ batch.listed =>
          \A i \in 1..Len(batch.results) :
              /\ i <= Len(batch.products)
              /\ batch.results[i].product_id.rest
                    = batch.products[i].shopee_product_id
              /\ batch.results[i].product_name = batch.products[i].product_name
    /\ BatchDone =>
          /\ Len(batch.results) = Len(batch.products)
          /\ response.results = batch.results

\* a batch over two different products returned, the first of them failed
C8_Witness ==
    /\ BatchDone
    /\ Len(batch.products) = 2
    /\ batch.products[1].shopee_product_id = "p2"
    /\ batch.products[2].shopee_product_id = "p1"
    /\ batch.results[1].statusCode = 500
    /\ batch.results[2].statusCode = 200

\* C9: if get_shopee_products fails, track_all_products returns a list of
\* exactly one outcome, of error status, describing the listing failure,
\* and no tracker is run.
C9_ListingFailureSingleOutcome ==
    (batch.state = "returned" /\ ~batch.listed) =>
        /\ Len(batch.results) = 1
        /\ batch.results[1].statusCode = 500
        /\ batch.results[1].error = "Failed to fetch products"
        /\ response.results = batch.results
        /\ tracker = NoTracker
        /\ calls = NoCalls

\* a listing failure was returned while the store holds an observation
C9_Witness ==
    /\ batch.state = "returned"
    /\ ~batch.listed
    /\ priceTable # {}
    /\ pc = "returned"

\* C10: every error outcome track_all_products produces for a product
\* carries the tracked-item id 'shopee_<shopee_product_id>' of that product.
C10_ErrorOutcomeCarriesItemId ==
    batch.listed =>
        \A i \in 1..Len(batch.results) :
            (/\ batch.results[i].statusCode = 500
             /\ batch.products[i].shopee_product_id # Absent)
            => batch.results[i].product_id
                  = ShopeeItemId(batch.products[i].shopee_product_id)

\* C10, what the code does: an error outcome of track_price carries the
\* item id, one of the per-product except clause the raw product id
ErrorOutcomeCarriesRawOrItemId ==
    batch.listed =>
        \A i \in 1..Len(batch.results) :
            batch.results[i].statusCode = 500 =>
                IF batch.history[i].built
                THEN batch.results[i].product_id
                        = ShopeeItemId(batch.products[i].shopee_product_id)
                ELSE batch.results[i].product_id
                        = RawId(batch.products[i].shopee_product_id)

\* C11: when the previous stored value is exactly zero, a track_price whose
\* fetch, read and write succeed returns success, and it notifies if and
\* only if the current value is non-zero, whatever the threshold.
C11_ZeroPreviousRule ==
    (/\ Returned
     /\ FetchSucceeded /\ ReadSucceeded /\ WriteSucceeded
     /\ loc.latest_price = Num(0))
    => /\ calls.notify = 1 <=> loc.current_price.n # 0
       /\ calls.notifyFailed \/ outcome.statusCode = 200

\* C11, what the code does: a stored zero is falsy, the condition short-cuts
\* before the division and nothing is ever sent
ZeroPreviousNeverNotifies ==
    (/\ Returned
     /\ FetchSucceeded /\ ReadSucceeded /\ WriteSucceeded
     /\ loc.latest_price = Num(0))
    => /\ calls.notify = 0
       /\ outcome.statusCode = 200
       /\ outcome.price_changed = FALSE

\* the running invocation fetched the value the store already held as the
\* latest one, and none of its collaborators failed
ValueUnchanged ==
    /\ Returned
    /\ FetchSucceeded /\ ReadSucceeded /\ WriteSucceeded
    /\ ~calls.notifyFailed
    /\ IsNum(loc.current_price)
    /\ loc.latest_price = loc.current_price

\* the running invocation reports no change and added exactly one
\* observation to the ones the earlier invocation left
NoChangeOneMoreWrite ==
    /\ outcome.statusCode = 200
    /\ outcome.price_changed = FALSE
    /\ calls.notify = 0
    /\ calls.write = 1
    /\ calls.prior >= 1
    /\ Cardinality(ItemsOf(priceTable, tracker.product_id)) = calls.prior + 1

\* C12, as stated: for any value v and any threshold t, v = 0 and t = 0
\* included, the second of two successive track_price invocations that fetch
\* the same v, all collaborators succeeding, reports price_changed = false,
\* and each of the two invocations performs exactly one store write.
C12_UnchangedValueAnyThreshold ==
    ValueUnchanged => NoChangeOneMoreWrite

\* C12, amended: the same for any threshold t > 0, and for t = 0 when v = 0.
C12_UnchangedValuePositiveThreshold ==
    (ValueUnchanged /\ (ThresholdPct > 0 \/ loc.current_price.n = 0))
    => NoChangeOneMoreWrite

\* a second invocation fetched the unchanged non-zero value under a positive
\* threshold
C12_Witness ==
    /\ ValueUnchanged
    /\ ThresholdPct > 0
    /\ loc.current_price.n # 0

\* a second invocation fetched the unchanged value zero under threshold zero
C12_WitnessZero ==
    /\ ValueUnchanged
    /\ ThresholdPct = 0
    /\ loc.current_price.n = 0

\* C12 at threshold zero: an unchanged non-zero value meets the threshold,
\* 0 >= 0, and is notified
UnchangedValueNotifiedAtThresholdZero ==
    (ValueUnchanged /\ ThresholdPct = 0 /\ loc.current_price.n # 0)
    => /\ calls.notify = 1
       /\ outcome.price_changed = TRUE

\* C13: when the store write fails after a successful fetch, track_price
\* returns an error outcome, sends no notification, leaves the store as it
\* was, and has fetched once and written once: no second fetch, no retry.
C13_WriteFailureIsError ==
    calls.writeFailed =>
        /\ pc \in {"done", "returned"}
        /\ outcome.statusCode = 500
        /\ outcome.error = "write"
        /\ calls.notify = 0
        /\ calls.fetch = 1
        /\ calls.write = 1
        /\ calls.stored = {}
        /\ Cardinality(ItemsOf(priceTable, tracker.product_id)) = calls.prior

\* the write failed after a fetch that delivered a price whose change from
\* the previous value meets the threshold
C13_Witness ==
    /\ calls.writeFailed
    /\ FetchSucceeded /\ ReadSucceeded
    /\ IsNum(loc.latest_price) /\ loc.latest_price.n # 0
    /\ Abs(loc.current_price.n - loc.latest_price.n) * 100
          >= ThresholdPct * Abs(loc.latest_price.n)

\* C14: in any single track_price invocation fetch_current_price is invoked
\* at most once, the store write is performed at most once and the notifier
\* send is invoked at most once.
C14_AtMostOnceEach ==
    /\ calls.fetch <= 1
    /\ calls.write <= 1
    /\ calls.notify <= 1
    /\ Len(calls.put) = calls.write
    /\ Cardinality(calls.stored) <= 1
    /\ Cardinality(ItemsOf(priceTable, tracker.product_id)) <= calls.prior + 1

\* an invocation returned after one fetch, one write and one send, the send
\* having failed
C14_Witness ==
    /\ Returned
    /\ calls.fetch = 1
    /\ calls.write = 1
    /\ calls.notify = 1
    /\ calls.notifyFailed

\* an outcome as track_price, lambda_handler and track_all_products return
\* them: a status code, and an error detail with the status code 500
IsOutcome(o) ==
    /\ o.statusCode \in {200, 500}
    /\ o.statusCode = 500 <=> o.error # ""

\* C15: no exception escapes track_price, track_all_products, lambda_handler
\* or handle_shopee_bulk_tracking: each ends by returning an outcome, which
\* is an error outcome when a collaborator or the construction failed.
C15_NoExceptionEscapes ==
    /\ pc = "done" => IsOutcome(outcome)
    /\ pc = "returned" =>
          /\ IsOutcome(response)
          /\ \A i \in 1..Len(response.results) : IsOutcome(response.results[i])
    /\ \A i \in 1..Len(batch.results) : IsOutcome(batch.results[i])
    /\ batch.state = "returned" => pc = "returned" /\ response.statusCode = 200
    /\ (calls.readFailed \/ calls.readRaised \/ calls.writeFailed)
          => pc \in {"done", "returned"} /\ outcome.statusCode = 500

\* lambda_handler returned the error outcome of a track_price whose notifier
\* raised
C15_Witness ==
    /\ pc = "returned"
    /\ batch.state = "none"
    /\ calls.notify = 1
    /\ outcome.error = "notify"
    /\ response.statusCode = 500

\* track_all_products returned a result list holding the error outcome of a
\* product whose store read failed
C15_WitnessBatch ==
    /\ batch.state = "returned"
    /\ batch.listed
    /\ \E i \in 1..Len(batch.results) :
          batch.history[i].built /\ batch.results[i].statusCode = 500

\* C16: when the source answers with a payload that lacks the price field,
\* the fetch signals a failure: track_price returns an error outcome and no
\* numeric value, such as 0, is handed to the store.
C16_MissingPriceFieldIsFailure ==
    calls.fieldMissing =>
        /\ calls.write = 0
        /\ calls.stored = {}
        /\ loc.current_price = NoneV
        /\ Returned => outcome.statusCode = 500

\* C16, what the code does: the default of dict.get stands in for the
\* missing field and the fetch returns the number zero
MissingPriceFieldReadsAsZero ==
    calls.fieldMissing =>
        /\ loc.current_price = Num(0)
        /\ \A i \in 1..Len(calls.put) : calls.put[i] = Num(0)
        /\ \A it \in calls.stored : it.price = Num(0)

\* the running tracker is a Shopee tracker without product id or shop id
MissingConfig ==
    /\ tracker.cls = "ShopeeTracker"
    /\ tracker.product_id.rest = Absent \/ tracker.shop_id = Absent

\* C17: a Shopee item without product_id or without shop_id is rejected with
\* an error outcome before any network call, whether it arrives through
\* lambda_handler or through track_all_products: no fetch, no store read or
\* write, no notification.
C17_MissingConfigRejected ==
    /\ MissingConfig =>
          /\ calls.fetch = 0 /\ calls.read = 0
          /\ calls.write = 0 /\ calls.notify = 0
          /\ pc \in {"done", "returned"} => outcome.statusCode = 500
    /\ batch.listed =>
          \A i \in 1..Len(batch.results) :
              ~WellFormed(batch.products[i]) =>
                  /\ batch.results[i].statusCode = 500
                  /\ ~batch.history[i].built

\* C17, what the code does: track_all_products rejects a row without
\* shopee_product_id or shop_id, lambda_handler an event without product_id
\* only
MissingProductIdRejected ==
    /\ tracker.cls = "ShopeeTracker" => tracker.product_id.rest # Absent
    /\ (batch.state = "running" /\ tracker.cls = "ShopeeTracker")
          => tracker.shop_id # Absent
    /\ batch.listed =>
          \A i \in 1..Len(batch.results) :
              ~WellFormed(batch.products[i]) =>
                  /\ batch.results[i].statusCode = 500
                  /\ ~batch.history[i].built

\* the batch returned after a successful listing
BatchListedAndReturned == batch.state = "returned" /\ batch.listed

\* C18: when the listing succeeds, the batch returns exactly one outcome for
\* every active Shopee product of the products table, including when the
\* scan delivers the table in several pages.
C18_OneOutcomePerStoredProduct ==
    BatchListedAndReturned =>
        /\ Len(batch.results) = Len(batch.products) + batch.unlisted
        /\ \A i \in 1..Len(batch.products) :
              /\ i <= Len(batch.results)
              /\ batch.results[i].product_id.rest
                    = batch.products[i].shopee_product_id

\* C18, what the code does: one outcome for every product of the first page
\* of the scan, none for the products of the later pages
OneOutcomePerFirstPageProduct ==
    BatchListedAndReturned =>
        /\ Len(batch.results) = Len(batch.products)
        /\ \A i \in 1..Len(batch.products) :
              batch.results[i].product_id.rest
                 = batch.products[i].shopee_product_id

\* C19: after any sequence of successful store_price writes for a product,
\* get_latest_price returns the price of the write performed last, also
\* when the wall clock does not advance or goes back between the writes.
C19_LatestIsLastWritten ==
    \A it \in calls.stored :
        IsNum(it.price) =>
            GetLatestPrice(priceTable, it.product_id, TRUE) = Return(it.price)

\* C19, what the code does: the item with the greatest timestamp is the
\* latest one, and it is the one written last as long as no earlier write
\* of the product carries a later timestamp
LatestIsGreatestTimestamp ==
    \A it \in calls.stored :
        /\ it \in priceTable
        /\ (\A o \in ItemsOf(priceTable, it.product_id) :
               o.timestamp <= it.timestamp)
           => GetLatestPrice(priceTable, it.product_id, TRUE) = Return(it.price)

\* a second write of a product carries the timestamp of the first one
\* and replaces it
WriteAtSameInstant ==
    /\ calls.write = 1
    /\ calls.prior = 1
    /\ \E it \in calls.stored : ItemsOf(priceTable, it.product_id) = {it}

\* two rows of the products table stand for two different Shopee products
DifferentProducts(a, b) ==
    a.shopee_product_id # b.shopee_product_id \/ a.shop_id # b.shop_id

\* C20: tracked-item ids are unique per source and entity: two Shopee
\* products that differ in product id or in shop, or a Shopee product and
\* gold, never share a store key: the tracker of one of them never runs
\* under the id the outcome of the other was returned for.
C20_DistinctItemsDistinctKeys ==
    /\ (batch.state = "running" /\ tracker.cls = "ShopeeTracker") =>
          \A k \in 1..Len(batch.history) :
              (/\ batch.history[k].built
               /\ DifferentProducts(batch.products[k], batch.products[batch.i]))
              => batch.results[k].product_id # tracker.product_id
    /\ \A it \in priceTable :
          it.product_id = GoldItemId <=> it.metadata.tracker_type = "GoldTracker"

\* C20, what the code does: the store key is 'shopee_<shopee_product_id>',
\* unique per Shopee product id whatever the shop, and never gold's key
KeysUniquePerProductId ==
    /\ (batch.state = "running" /\ tracker.cls = "ShopeeTracker") =>
          \A k \in 1..Len(batch.history) :
              (/\ batch.history[k].built
               /\ batch.products[k].shopee_product_id
                     # batch.products[batch.i].shopee_product_id)
              => batch.results[k].product_id # tracker.product_id
    /\ \A it \in priceTable :
          it.product_id = GoldItemId <=> it.metadata.tracker_type = "GoldTracker"

\* the latest price the store held for the running tracker when track_price
\* was entered: the observations of this invocation set aside
LatestBeforeInvocation ==
    GetLatestPrice(priceTable \ calls.stored, tracker.product_id, TRUE)

\* C22: in every track_price invocation the steps occur in the order fetch,
\* previous-value read, store write, notify: the previous value is the one
\* stored before the invocation, never the one just written, and a
\* notification is sent only after the observation it reports is persisted.
C22_StepOrder ==
    /\ calls.read > 0 => calls.fetch = 1
    /\ calls.write > 0 => calls.read = 1 /\ ~calls.readRaised
    /\ calls.notify > 0 =>
          /\ WriteSucceeded
          /\ calls.stored \subseteq priceTable
          /\ \A it \in calls.stored : it.price = loc.current_price
    /\ (pc \in {"check", "notify", "done"} /\ ReadSucceeded) =>
          /\ ~LatestBeforeInvocation.raised
          /\ loc.latest_price = LatestBeforeInvocation.value
    /\ (Returned /\ outcome.statusCode = 200) =>
          /\ outcome.previous_price = loc.latest_price
          /\ outcome.current_price = loc.current_price

\* an invocation returned after having notified a change from the value
\* stored before it to the value it stored
C22_Witness ==
    /\ Returned
    /\ outcome.statusCode = 200
    /\ calls.notify = 1 /\ ~calls.notifyFailed
    /\ IsNum(outcome.previous_price)
    /\ outcome.previous_price # outcome.current_price

\* C23: in every outcome track_price returns with status 200, price_changed
\* is true if and only if exactly one notification was sent successfully in
\* that invocation, and price_changed = false implies that no send was
\* attempted.
C23_ChangedIffNotified ==
    (Returned /\ outcome.statusCode = 200) =>
        /\ outcome.price_changed <=> (calls.notify = 1 /\ ~calls.notifyFailed)
        /\ ~outcome.price_changed => calls.notify = 0

\* C23, what the code does: price_changed is true if and only if the send
\* was attempted and did not raise, whether or not it delivered
ChangedIffSendAttempted ==
    (Returned /\ outcome.statusCode = 200) =>
        /\ outcome.price_changed <=> calls.notify = 1
        /\ outcome.price_changed => Len(ntfyLog) >= 1 \/ calls.notifyFailed

----------------------------------------------------------------------------
(* Invocations of track_price side by side.  Two Lambda invocations of the
   same tracker share nothing but the price table and the notifier; each
   runs the steps of BaseTracker.track_price on its own locals.  The source,
   the store and the notifier's transport work, but a send may fail. *)

\* how often the external source changes its price
MaxChanges == 2

\* the tracker both invocations are built for
RaceTracker == GoldTracker(Num(ManagerDefaultThresholdPct))

\* the gold API answering with the price the source reports at present
SourceAnswer == [kind |-> "ok", sell_price |-> Num(source)]

\* invocations that have entered track_price and not yet written
Unwritten == {q \in Procs : inv[q].pc \in {"fetch", "read", "write"}}

RaceInit ==
    /\ EngineInit
    /\ ParserIdle
    /\ PipelineIdle
    /\ ManagerIdle
    /\ source \in Prices
    /\ changes = 0
    /\ lost = NoneV
    /\ inv = [p \in Procs |-> NoInvocation]
    /\ raced = FALSE

\* the external source changes its price
SourceChange ==
    /\ changes < MaxChanges
    /\ \E v \in Prices \ {source} : source' = v
    /\ changes' = changes + 1
    /\ UNCHANGED <<lost, inv, raced, engineVars, parserVars, pipelineVars, managerVars>>

\* entry of track_price in invocation p
RaceBegin(p) ==
    /\ inv[p].pc = "idle"
    /\ now + Cardinality(Unwritten) < MaxNow
    /\ inv' = [inv EXCEPT ![p] = [NoInvocation EXCEPT !.pc = "fetch", !.retry = lost]]
    /\ raced' = (raced \/ \E q \in Procs : inv[q].pc # "idle")
    /\ UNCHANGED <<source, changes, lost, engineVars, parserVars, pipelineVars, managerVars>>

\* current_price = self.fetch_current_price()
RaceFetch(p) ==
    /\ inv[p].pc = "fetch"
    /\ inv' = [inv EXCEPT ![p].current_price =
                              GoldFetch(SourceAnswer, SourceAnswer).value,
                          ![p].pc = "read"]
    /\ UNCHANGED <<source, changes, lost, raced, engineVars, parserVars, pipelineVars, managerVars>>

\* latest_price = self.get_latest_price()
RaceRead(p) ==
    /\ inv[p].pc = "read"
    /\ LET r == GetLatestPrice(priceTable, RaceTracker.product_id, TRUE)
       IN  /\ ~r.raised
           /\ inv' = [inv EXCEPT ![p].latest_price = r.value, ![p].pc = "write"]
    /\ UNCHANGED <<source, changes, lost, raced, engineVars, parserVars, pipelineVars, managerVars>>

\* self.store_price_data(current_price)
RaceWrite(p) ==
    /\ inv[p].pc = "write"
    /\ priceTable' = StorePriceData(priceTable, RaceTracker, inv[p].current_price,
                                    inv[p].latest_price, now)
    /\ now' = now + 1
    /\ inv' = [inv EXCEPT ![p].pc = "check"]
    /\ UNCHANGED <<source, changes, lost, raced, parserVars, pipelineVars, managerVars>>
    /\ UNCHANGED <<ntfyLog, pc, tracker, loc, calls, outcome, batch, response>>

\* if latest_price and self.should_notify(current_price, latest_price)
RaceCheck(p) ==
    /\ inv[p].pc = "check"
    /\ LET c == NotifyCondition(inv[p].current_price, inv[p].latest_price,
                                RaceTracker.threshold)
       IN  inv' = [inv EXCEPT ![p].pc = IF ~c.raised /\ c.value
                                        THEN "notify" ELSE "done"]
    /\ UNCHANGED <<source, changes, lost, raced, engineVars, parserVars, pipelineVars, managerVars>>

\* self.send_price_change_notification(latest_price, current_price)
RaceNotify(p) ==
    /\ inv[p].pc = "notify"
    /\ \E res \in NtfyResults :
          /\ ntfyLog' = IF res = "ok"
                        THEN Append(ntfyLog,
                                 [message |-> PriceAlert(RaceTracker.product_name,
                                                         inv[p].latest_price,
                                                         inv[p].current_price),
                                  topic |-> RaceTracker.product_id])
                        ELSE ntfyLog
          /\ lost' = IF res = "ok"
                     THEN (IF lost = inv[p].current_price THEN NoneV ELSE lost)
                     ELSE inv[p].current_price
          /\ inv' = [inv EXCEPT ![p].pc = "done",
                                ![p].notified = (res = "ok"),
                                ![p].notifyFailed = (res # "ok")]
    /\ UNCHANGED <<source, changes, raced, parserVars, pipelineVars, managerVars>>
    /\ UNCHANGED <<priceTable, now, pc, tracker, loc, calls, outcome, batch, response>>

\* track_price has returned and the invocation ends
RaceReturn(p) ==
    /\ inv[p].pc = "done"
    /\ inv' = [inv EXCEPT ![p] = NoInvocation]
    /\ UNCHANGED <<source, changes, lost, raced, engineVars, parserVars, pipelineVars, managerVars>>

NextRace ==
    \/ SourceChange
    \/ \E p \in Procs : RaceBegin(p)
    \/ \E p \in Procs : RaceFetch(p)
    \/ \E p \in Procs : RaceRead(p)
    \/ \E p \in Procs : RaceWrite(p)
    \/ \E p \in Procs : RaceCheck(p)
    \/ \E p \in Procs : RaceNotify(p)
    \/ \E p \in Procs : RaceReturn(p)

SpecRace == RaceInit /\ [][NextRace]_vars

\* C24: a significant change whose notification failed is not lost: an
\* invocation entered after the failure that fetches the same value and
\* whose own send does not fail has delivered a notification when it returns
C24_FailedNotificationRetried ==
    \A p \in Procs :
        (/\ inv[p].pc = "done"
         /\ inv[p].retry # NoneV
         /\ inv[p].current_price = inv[p].retry
         /\ ~inv[p].notifyFailed)
        => inv[p].notified

\* the invocation after a failed send finds the changed price already stored
\* and attempts no send at all
RetryFindsChangeStored ==
    \A p \in Procs :
        (/\ inv[p].pc = "done"
         /\ inv[p].retry # NoneV
         /\ inv[p].current_price = inv[p].retry
         /\ inv[p].latest_price = inv[p].retry)
        => ~inv[p].notified /\ ~inv[p].notifyFailed

\* C25: one change of the external price produces at most one notification,
\* however the invocations of track_price interleave
C25_OneNotificationPerChange == Len(ntfyLog) <= changes

\* invocations that run one after the other announce each change of the
\* external price at most once
SerialOneNotificationPerChange == ~raced => Len(ntfyLog) <= changes

\* one change announced twice by invocations that ran side by side
SameChangeTwice ==
    /\ changes = 1
    /\ Len(ntfyLog) = 2
    /\ ntfyLog[1] = ntfyLog[2]

----------------------------------------------------------------------------
(* lambda/tracker-stack-worker.py: the worker Lambda.  One action per record
   of the batch; the fetch and each AWS call of a record may fail. *)

\* the number of records of one batch
MaxRecords == 2

\* the instants the worker's clock can read
MaxTick == 3

\* the prices the sources of the pipeline report
CrawlPrices == {100, 105}

ShopeeUrl == "https://shopee.vn/api/v4/item/get?itemid=1&shopid=2"

GoldUrl == "https://goldstore.com/daily-prices"

\* the bodies of the SQS messages: the jobs the dispatcher builds and a job
\* of a type the worker does not know
ShopeeJob(productId, u) == [type |-> "shopee", productId |-> productId, url |-> u]

GoldJob == [type |-> "gold", productId |-> Absent, url |-> GoldUrl]

OtherJob == [type |-> "other", productId |-> Absent, url |-> ""]

Jobs == {ShopeeJob("p1", ShopeeUrl), ShopeeJob("gold-price", GoldUrl), GoldJob, OtherJob}

KnownJob(job) == job.type \in {"shopee", "gold"}

Batches == UNION {[1..n -> Jobs] : n \in 0..MaxRecords}

\* the call of a record that fails, if any
Faults == {"none", "fetch", "get_item", "history", "products", "sns", "update_item"}

\* get_price_from_shopee / get_price_from_gold_page: the price answered, or
\* an exception.  The gold page is HTML, response.json() raises on it.
GetPrice(job, answer, fault) ==
    IF fault = "fetch" THEN Raise
    ELSE IF job.type = "shopee" /\ job.url = GoldUrl THEN Raise
    ELSE Return(Num(answer))

\* product_id of a job
JobProductId(job) == IF job.type = "gold" THEN "gold-price" ELSE job.productId

\* last_price = product.get('lastPrice') if product else None
LastPrice(table, id) == IF table[id].present THEN table[id].lastPrice ELSE NoneV

\* price_changed = last_price is None or int(last_price) != int(price_val)
PriceChanged(last_price, price_val) == last_price = NoneV \/ last_price # price_val

\* history_table.put_item
HistoryPut(history, id, price_val, ts) ==
    [history EXCEPT ![id] = Append(@, [timestamp |-> ts, price |-> price_val])]

\* products_table.put_item: the row is replaced
ProductsPut(table, id, u, price_val, ts) ==
    [table EXCEPT ![id] = [url |-> u, lastPrice |-> price_val,
                           lastCheckedAt |-> ts, present |-> TRUE]]

\* products_table.update_item SET lastCheckedAt = :t
ProductsTouch(table, id, ts) == [table EXCEPT ![id].lastCheckedAt = ts, ![id].present = TRUE]

\* the message handed to sns.publish
PriceMessage(id, last_price, price_val, ts) ==
    [productId |-> id, oldPrice |-> last_price, newPrice |-> price_val, timestamp |-> ts]

\* the tables the worker can find: the Shopee product is registered without
\* a price or not at all, the gold row is the worker's to create
WorkerInit ==
    /\ EngineInit
    /\ ParserIdle
    /\ RaceIdle
    /\ productsTable \in
          {[id \in ProductIds |-> NoRow],
           [id \in ProductIds |->
               IF id = "p1"
               THEN [url |-> ShopeeUrl, lastPrice |-> NoneV, lastCheckedAt |-> 0,
                     present |-> TRUE]
               ELSE NoRow]}
    /\ historyTable = [id \in ProductIds |-> <<>>]
    /\ crawlQueue = <<>>
    /\ published = <<>>
    /\ tick = 0
    /\ worker = NoWorker
    /\ dispatcher = NoDispatcher
    /\ ManagerIdle

\* handler(event, context) is entered with a batch
WorkerEnter(records) ==
    /\ worker.pc = "idle"
    /\ tick + Len(records) <= MaxTick
    /\ worker' = [NoWorker EXCEPT !.pc = "loop", !.records = records]

\* Lambda invokes the handler with any batch of records
WorkerInvoke ==
    /\ \E records \in Batches : WorkerEnter(records)
    /\ UNCHANGED <<productsTable, historyTable, crawlQueue, published, tick, dispatcher>>
    /\ UNCHANGED <<engineVars, parserVars, raceVars, managerVars>>

\* fault injection: the loop ends at the first record that fails
WorkerRecordStopping ==
    /\ worker.pc = "loop"
    /\ worker.i < Len(worker.records)
    /\ LET job == worker.records[worker.i + 1]
           id == JobProductId(job)
           last_price == LastPrice(productsTable, id)
       IN  IF ~KnownJob(job)
           THEN \* logger.warning; continue
                /\ worker' = [worker EXCEPT !.i = @ + 1]
                /\ UNCHANGED <<productsTable, historyTable, published, tick>>
           ELSE \E answer \in CrawlPrices, fault \in Faults :
                  LET price == GetPrice(job, answer, fault)
                      changed == PriceChanged(last_price, price.value)
                      reached == ~price.raised /\ fault # "get_item"
                      failed ==
                          \/ ~reached
                          \/ changed /\ fault \in {"history", "products", "sns"}
                  IN  /\ historyTable' =
                             IF reached /\ changed /\ fault # "history"
                             THEN HistoryPut(historyTable, id, price.value, tick)
                             ELSE historyTable
                      /\ productsTable' =
                             IF reached /\ changed /\ fault \notin {"history", "products"}
                             THEN ProductsPut(productsTable, id, job.url, price.value, tick)
                             ELSE IF reached /\ ~changed /\ fault # "update_item"
                             THEN ProductsTouch(productsTable, id, tick)
                             ELSE productsTable
                      /\ published' =
                             IF reached /\ changed
                                /\ fault \notin {"history", "products", "sns"}
                             THEN Append(published,
                                         PriceMessage(id, last_price, price.value, tick))
                             ELSE published
                      /\ worker' = [worker EXCEPT
                             !.i = IF failed THEN Len(worker.records) ELSE @ + 1,
                             !.processed = IF failed THEN @ ELSE @ + 1,
                             !.errors = IF failed THEN @ + 1 ELSE @]
                      /\ tick' = tick + 1
    /\ UNCHANGED <<crawlQueue, dispatcher>>
    /\ UNCHANGED <<engineVars, parserVars, raceVars, managerVars>>

\* one iteration of  for record in event.get('Records', [])
WorkerRecord ==
    /\ worker.pc = "loop"
    /\ worker.i < Len(worker.records)
    /\ LET job == worker.records[worker.i + 1]
           id == JobProductId(job)
           last_price == LastPrice(productsTable, id)
       IN  IF ~KnownJob(job)
           THEN \* logger.warning; continue
                /\ worker' = [worker EXCEPT !.i = @ + 1]
                /\ UNCHANGED <<productsTable, historyTable, published, tick>>
           ELSE \E answer \in CrawlPrices, fault \in Faults :
                  LET price == GetPrice(job, answer, fault)
                      changed == PriceChanged(last_price, price.value)
                      reached == ~price.raised /\ fault # "get_item"
                      failed ==
                          \/ ~reached
                          \/ changed /\ fault \in {"history", "products", "sns"}
                  IN  /\ historyTable' =
                             IF reached /\ changed /\ fault # "history"
                             THEN HistoryPut(historyTable, id, price.value, tick)
                             ELSE historyTable
                      /\ productsTable' =
                             IF reached /\ changed /\ fault \notin {"history", "products"}
                             THEN ProductsPut(productsTable, id, job.url, price.value, tick)
                             ELSE IF reached /\ ~changed /\ fault # "update_item"
                             THEN ProductsTouch(productsTable, id, tick)
                             ELSE productsTable
                      /\ published' =
                             IF reached /\ changed
                                /\ fault \notin {"history", "products", "sns"}
                             THEN Append(published,
                                         PriceMessage(id, last_price, price.value, tick))
                             ELSE published
                      /\ worker' = [worker EXCEPT
                             !.i = @ + 1,
                             !.processed = IF failed THEN @ ELSE @ + 1,
                             !.errors = IF failed THEN @ + 1 ELSE @]
                      /\ tick' = tick + 1
    /\ UNCHANGED <<crawlQueue, dispatcher>>
    /\ UNCHANGED <<engineVars, parserVars, raceVars, managerVars>>

\* return {'statusCode': 200, 'processed': ..., 'errors': ...}
WorkerReturn ==
    /\ worker.pc = "loop"
    /\ worker.i = Len(worker.records)
    /\ worker' = [worker EXCEPT !.pc = "returned", !.statusCode = 200]
    /\ UNCHANGED <<productsTable, historyTable, crawlQueue, published, tick, dispatcher>>
    /\ UNCHANGED <<engineVars, parserVars, raceVars, managerVars>>

\* the invocation is over
WorkerExit ==
    /\ worker.pc = "returned"
    /\ worker' = NoWorker
    /\ UNCHANGED <<productsTable, historyTable, crawlQueue, published, tick, dispatcher>>
    /\ UNCHANGED <<engineVars, parserVars, raceVars, managerVars>>

NextWorker ==
    \/ WorkerInvoke
    \/ WorkerRecord
    \/ WorkerReturn
    \/ WorkerExit

SpecWorker == WorkerInit /\ [][NextWorker]_vars

\* C26: the worker never publishes a notification for a product that has no
\* stored last price: every published message carries an old price
C26_NoPublishWithoutLastPrice ==
    \A k \in 1..Len(published) : published[k].oldPrice # NoneV

\* every published message reports a new price that differs from the old one
PublishedOnlyOnDifference ==
    \A k \in 1..Len(published) : published[k].oldPrice # published[k].newPrice

\* the price of the newest history entry of a product, None without entries
NewestHistoryPrice(id) ==
    IF historyTable[id] = <<>> THEN NoneV
    ELSE historyTable[id][Len(historyTable[id])].price

\* C27: after the worker has finished a batch, the stored lastPrice of every
\* product is the price of its newest history entry
C27_LastPriceIsNewestHistory ==
    worker.pc = "returned" =>
        \A id \in ProductIds : LastPrice(productsTable, id) = NewestHistoryPrice(id)

\* a record that is processed without a publish (its price is unchanged)
\* appends no history entry and changes nothing of a row but lastCheckedAt
UnchangedPriceOnlyTouches ==
    [][(worker'.processed = worker.processed + 1 /\ published' = published)
       => /\ historyTable' = historyTable
          /\ \A id \in ProductIds :
                /\ productsTable'[id].lastPrice = productsTable[id].lastPrice
                /\ productsTable'[id].url = productsTable[id].url]_vars

\* the records of the running batch the loop has visited that are jobs of a
\* known type
KnownVisited == {k \in 1..worker.i : KnownJob(worker.records[k])}

----------------------------------------------------------------------------
(* lambda/tracker-stack-dispatcher.py: the dispatcher Lambda, and the worker
   fed from the queue the dispatcher fills. *)

\* the number of messages the queue holds
MaxQueue == 3

\* the order in which a scan walks the products table
ScanOrder == <<"p1", "gold-price">>

\* the positions of the rows a scan page delivers: those after the exclusive
\* start key, up to the position of the page's last evaluated key
PageRows(table, lastKey, upto) ==
    {k \in (lastKey + 1)..upto : table[ScanOrder[k]].present}

\* the jobs of the rows at the positions sent, in scan order
ShopeeJobs(table, sent) ==
    LET Sent(id) == \E k \in sent : ScanOrder[k] = id
        ids == SelectSeq(ScanOrder, Sent)
    IN  [k \in 1..Len(ids) |-> ShopeeJob(ids[k], table[ids[k]].url)]

\* the productIds of the rows at the positions of a page, in scan order
PageIds(rows) ==
    LET OnPage(id) == \E k \in rows : ScanOrder[k] = id
    IN  SelectSeq(ScanOrder, OnPage)

\* fault injection: the pages after the first are not asked for
ScanAndEnqueueFirstPageOnly(next) ==
    \E ok \in BOOLEAN :
        IF ~ok
        THEN /\ dispatcher' = [dispatcher EXCEPT !.pc = "raised"]
             /\ UNCHANGED crawlQueue
        ELSE \E upto \in (dispatcher.lastKey + 1)..Len(ScanOrder) :
             LET rows == PageRows(productsTable, dispatcher.lastKey, upto)
             IN  \E sent \in SUBSET rows :
                    /\ crawlQueue' = crawlQueue \o ShopeeJobs(productsTable, sent)
                    /\ dispatcher' = [dispatcher EXCEPT
                           !.pc = next,
                           !.lastKey = Len(ScanOrder),
                           !.enqueued = @ + Cardinality(sent),
                           !.pages = @ + 1,
                           !.attempted = @ \o PageIds(rows),
                           !.accepted = @ + Cardinality(sent)]

\* a page of table.scan and the for loop over its items: the scan raises, or
\* it delivers the rows up to some key and each send_message is accepted or
\* fails (a failure is logged and the loop goes on)
ScanAndEnqueue(next) ==
    \E ok \in BOOLEAN :
        IF ~ok
        THEN /\ dispatcher' = [dispatcher EXCEPT !.pc = "raised"]
             /\ UNCHANGED crawlQueue
        ELSE \E upto \in (dispatcher.lastKey + 1)..Len(ScanOrder) :
             LET rows == PageRows(productsTable, dispatcher.lastKey, upto)
             IN  \E sent \in SUBSET rows :
                    /\ crawlQueue' = crawlQueue \o ShopeeJobs(productsTable, sent)
                    /\ dispatcher' = [dispatcher EXCEPT
                           !.pc = next,
                           !.lastKey = upto,
                           !.enqueued = @ + Cardinality(sent),
                           !.pages = @ + 1,
                           !.attempted = @ \o PageIds(rows),
                           !.accepted = @ + Cardinality(sent)]

\* response = table.scan() and the first loop over the items
DispatcherScan ==
    /\ dispatcher.pc = "idle"
    /\ Len(crawlQueue) + Len(ScanOrder) + 1 <= MaxQueue
    /\ ScanAndEnqueue("gold")
    /\ UNCHANGED <<productsTable, historyTable, published, tick, worker>>
    /\ UNCHANGED <<engineVars, parserVars, raceVars, managerVars>>

\* "Always add gold price tracking job": one send_message, a failure is logged
DispatcherGold ==
    /\ dispatcher.pc = "gold"
    /\ \E ok \in BOOLEAN :
          /\ crawlQueue' = IF ok THEN Append(crawlQueue, GoldJob) ELSE crawlQueue
          /\ dispatcher' = [dispatcher EXCEPT
                 !.pc = "pages",
                 !.goldSends = @ + 1,
                 !.gold = IF ok THEN @ + 1 ELSE @,
                 !.enqueued = IF ok THEN @ + 1 ELSE @,
                 !.accepted = IF ok THEN @ + 1 ELSE @]
    /\ UNCHANGED <<productsTable, historyTable, published, tick, worker>>
    /\ UNCHANGED <<engineVars, parserVars, raceVars, managerVars>>

\* one turn of  while 'LastEvaluatedKey' in response
DispatcherPage ==
    /\ dispatcher.pc = "pages"
    /\ dispatcher.lastKey < Len(ScanOrder)
    /\ ScanAndEnqueue("pages")
    /\ UNCHANGED <<productsTable, historyTable, published, tick, worker>>
    /\ UNCHANGED <<engineVars, parserVars, raceVars, managerVars>>

\* return {'statusCode': 200, 'enqueued': enqueued_count}
DispatcherReturn ==
    /\ dispatcher.pc = "pages"
    /\ dispatcher.lastKey = Len(ScanOrder)
    /\ dispatcher' = [dispatcher EXCEPT !.pc = "returned", !.statusCode = 200]
    /\ UNCHANGED <<productsTable, historyTable, crawlQueue, published, tick, worker>>
    /\ UNCHANGED <<engineVars, parserVars, raceVars, managerVars>>

\* the invocation is over, by a return or by the re-raised exception
DispatcherExit ==
    /\ dispatcher.pc \in {"returned", "raised"}
    /\ dispatcher' = NoDispatcher
    /\ UNCHANGED <<productsTable, historyTable, crawlQueue, published, tick, worker>>
    /\ UNCHANGED <<engineVars, parserVars, raceVars, managerVars>>

\* the SQS event source hands the worker the oldest messages as one batch
WorkerReceive ==
    /\ crawlQueue # <<>>
    /\ \E n \in 1..MaxRecords :
          /\ n <= Len(crawlQueue)
          /\ WorkerEnter(SubSeq(crawlQueue, 1, n))
          /\ crawlQueue' = SubSeq(crawlQueue, n + 1, Len(crawlQueue))
    /\ UNCHANGED <<productsTable, historyTable, published, tick, dispatcher>>
    /\ UNCHANGED <<engineVars, parserVars, raceVars, managerVars>>

NextPipeline ==
    \/ DispatcherScan
    \/ DispatcherGold
    \/ DispatcherPage
    \/ DispatcherReturn
    \/ DispatcherExit
    \/ WorkerReceive
    \/ WorkerRecord
    \/ WorkerReturn
    \/ WorkerExit

SpecPipeline == WorkerInit /\ [][NextPipeline]_vars

\* C29: every job of type 'shopee' in the queue refers to a Shopee product,
\* never to the gold-price row and its URL
C29_ShopeeJobsAreShopeeProducts ==
    \A k \in 1..Len(crawlQueue) :
        crawlQueue[k].type = "shopee" =>
            /\ crawlQueue[k].productId # "gold-price"
            /\ crawlQueue[k].url # GoldUrl

\* every job of type 'shopee' in the queue carries the productId and the url
\* of a row of the products table
ShopeeJobsAreRows ==
    \A k \in 1..Len(crawlQueue) :
        crawlQueue[k].type = "shopee" =>
            /\ productsTable[crawlQueue[k].productId].present
            /\ productsTable[crawlQueue[k].productId].url = crawlQueue[k].url

\* C30: every dispatcher invocation enqueues exactly one gold job
C30_OneGoldJobPerInvocation ==
    dispatcher.pc \in {"returned", "raised"} => dispatcher.gold = 1

\* an invocation sends the gold job at most once, and exactly once when it
\* returns
GoldJobSentOncePerReturn ==
    /\ dispatcher.goldSends <= 1
    /\ dispatcher.gold <= dispatcher.goldSends
    /\ dispatcher.pc = "returned" => dispatcher.goldSends = 1

----------------------------------------------------------------------------
(* The dispatcher Lambda on a products table that stands still while it
   runs; the queue is emptied by its consumer between the invocations. *)

\* a row the worker has written
StoredRow(u) == [url |-> u, lastPrice |-> Num(100), lastCheckedAt |-> 0, present |-> TRUE]

\* the products tables a dispatcher invocation can find
DispatcherInit ==
    /\ EngineInit
    /\ ParserIdle
    /\ RaceIdle
    /\ \E ids \in SUBSET ProductIds :
          productsTable = [id \in ProductIds |->
                              IF id \notin ids THEN NoRow
                              ELSE IF id = "p1" THEN StoredRow(ShopeeUrl)
                              ELSE StoredRow(GoldUrl)]
    /\ historyTable = [id \in ProductIds |-> <<>>]
    /\ crawlQueue = <<>>
    /\ published = <<>>
    /\ tick = 0
    /\ worker = NoWorker
    /\ dispatcher = NoDispatcher
    /\ ManagerIdle

\* the consumer of the queue takes the oldest message
QueueTake ==
    /\ crawlQueue # <<>>
    /\ crawlQueue' = Tail(crawlQueue)
    /\ UNCHANGED <<productsTable, historyTable, published, tick, worker, dispatcher>>
    /\ UNCHANGED <<engineVars, parserVars, raceVars, managerVars>>

NextDispatcher ==
    \/ DispatcherScan
    \/ DispatcherGold
    \/ DispatcherPage
    \/ DispatcherReturn
    \/ DispatcherExit
    \/ QueueTake

SpecDispatcher == DispatcherInit /\ [][NextDispatcher]_vars

\* the rows of the products table, in scan order
TableIds ==
    LET Stored(id) == productsTable[id].present
    IN  SelectSeq(ScanOrder, Stored)

\* C31: a dispatcher invocation that returns has attempted one job for every
\* row of the table, none skipped and none twice, whatever the pages were
\* and whichever sends failed, and 'enqueued' is the number of messages the
\* queue accepted
C31_OneAttemptPerRow ==
    /\ dispatcher.pc = "returned" => dispatcher.attempted = TableIds
    /\ dispatcher.enqueued = dispatcher.accepted
    /\ dispatcher.accepted <= Len(dispatcher.attempted) + dispatcher.goldSends

\* two rows delivered in two pages, the send for one of them failed
C31_Witness ==
    /\ dispatcher.pc = "returned"
    /\ dispatcher.pages = 2
    /\ Len(dispatcher.attempted) = 2
    /\ dispatcher.gold = 1
    /\ dispatcher.enqueued = 2

\* the events whose tracker_type is neither registered nor 'shopee_bulk'
UnknownTypeEvents ==
    {event \in Events : event.tracker_type \notin TrackerRegistry \cup {"shopee_bulk"}}

\* C32: lambda_handler called with a tracker_type that is neither registered
\* nor 'shopee_bulk' returns a status-500 outcome naming the type, and has
\* built no tracker and called neither source, store nor notifier
C32_UnknownTypeRejected ==
    \A event \in UnknownTypeEvents :
        /\ HandlerRejects(event) = "Unknown tracker type: " \o event.tracker_type
        /\ response.error = "Unknown tracker type: " \o event.tracker_type =>
              /\ pc = "returned"
              /\ response.statusCode = 500
              /\ tracker = NoTracker
              /\ calls = NoCalls
              /\ outcome = NoOutcome
              /\ batch = NoBatch

\* lambda_handler has answered an event of type 'amazon' while the store
\* holds observations of earlier invocations
C32_Witness ==
    /\ pc = "returned"
    /\ response = ErrorResponse("Unknown tracker type: amazon")
    /\ priceTable # {}

\* the events of type 'gold' that carry a product_id
GoldEventsWithProductId ==
    {event \in Events : event.tracker_type = "gold" /\ event.product_id # Absent}

\* C33: a product_id in the event never turns a gold tracking request into
\* an error outcome: lambda_handler never answers a 'gold' event with the
\* TypeError of the constructor call
C33_GoldProductIdOptional ==
    \A event \in GoldEventsWithProductId :
        ~(pc = "returned" /\ response = ErrorResponse(HandlerRejects(event)))

\* a gold tracker, which only an event without product_id builds, tracks the
\* item 'gold_doji'
GoldWithoutProductIdTracks ==
    tracker.cls = "GoldTracker" => tracker.product_id = GoldItemId

----------------------------------------------------------------------------
(* ShopeeURLParser (tests/test_shopee_standalone.py).  A string is a
   sequence of symbols: "H" stands for the literal https://shopee.vn/ and
   "I" for the literal -i. of the pattern, "." is a full stop, "1" and "2"
   are digits and "a" is any other character. *)

\* the longest URL handed to the parser
MaxUrlLen == 6

Chars == {"H", "I", ".", "1", "2", "a"}

Digits == {"1", "2"}

Urls == UNION {[1..n -> Chars] : n \in 0..MaxUrlLen}

RECURSIVE DigitRun(_, _)
\* the number of digits of s from position i on: what a greedy (\d+)
\* consumes there
DigitRun(s, i) ==
    IF i \in 1..Len(s) /\ s[i] \in Digits THEN 1 + DigitRun(s, i + 1) ELSE 0

\* -i\.(\d+)\.(\d+) matches s at position j; the first group has to take
\* the whole run of digits for the full stop to follow it
MatchesIdsAt(s, j) ==
    /\ j \in 1..Len(s)
    /\ s[j] = "I"
    /\ DigitRun(s, j + 1) > 0
    /\ j + 1 + DigitRun(s, j + 1) <= Len(s)
    /\ s[j + 1 + DigitRun(s, j + 1)] = "."
    /\ DigitRun(s, j + 2 + DigitRun(s, j + 1)) > 0

\* the positions at which re.search can place -i\. of the pattern
\* https://shopee\.vn/.*-i\.(\d+)\.(\d+): after an occurrence of the literal
IdPositions(s) ==
    {j \in 1..Len(s) : MatchesIdsAt(s, j) /\ \E h \in 1..(j - 1) : s[h] = "H"}

Greatest(S) == CHOOSE x \in S : \A y \in S : y <= x

\* fault injection: the two groups are taken in the other order
ParseShopeeUrlSwapped(s) ==
    IF IdPositions(s) = {}
    THEN [called |-> TRUE, success |-> FALSE, shop_id |-> <<>>, product_id |-> <<>>]
    ELSE LET j == Greatest(IdPositions(s))
             n == DigitRun(s, j + 1)
             m == DigitRun(s, j + 2 + n)
         IN  [called |-> TRUE, success |-> TRUE,
              shop_id |-> SubSeq(s, j + 2 + n, j + 1 + n + m),
              product_id |-> SubSeq(s, j + 1, j + n)]

\* ShopeeURLParser.parse_shopee_url: the greedy .* leaves -i\. at the last
\* position where the rest of the pattern matches
ParseShopeeUrl(s) ==
    IF IdPositions(s) = {}
    THEN [called |-> TRUE, success |-> FALSE, shop_id |-> <<>>, product_id |-> <<>>]
    ELSE LET j == Greatest(IdPositions(s))
             n == DigitRun(s, j + 1)
             m == DigitRun(s, j + 2 + n)
         IN  [called |-> TRUE, success |-> TRUE,
              shop_id |-> SubSeq(s, j + 1, j + n),
              product_id |-> SubSeq(s, j + 2 + n, j + 1 + n + m)]

\* ShopeeURLParser.build_api_url with the default base_url:
\*     f"{base_url}/api/v4/item/get?itemid={product_id}&shopid={shop_id}"
BuildApiUrl(shop_id, product_id) ==
    <<"H", "api/v4/item/get?itemid=">> \o product_id \o <<"&shopid=">> \o shop_id

\* the engine is at rest, a URL is about to be parsed
ParserInit ==
    /\ EngineInit
    /\ RaceIdle
    /\ PipelineIdle
    /\ ManagerIdle
    /\ url \in Urls
    /\ parsed = NoParse
    /\ apiUrl = <<>>

\* parsed = ShopeeURLParser.parse_shopee_url(url)
ParseUrl ==
    /\ ~parsed.called
    /\ parsed' = ParseShopeeUrl(url)
    /\ UNCHANGED <<url, apiUrl, engineVars, raceVars, pipelineVars, managerVars>>

\* api_url = ShopeeURLParser.build_api_url(parsed['shop_id'], parsed['product_id'])
BuildUrl ==
    /\ parsed.called /\ parsed.success
    /\ apiUrl = <<>>
    /\ apiUrl' = BuildApiUrl(parsed.shop_id, parsed.product_id)
    /\ UNCHANGED <<url, parsed, engineVars, raceVars, pipelineVars, managerVars>>

NextParser == ParseUrl \/ BuildUrl

SpecParser == ParserInit /\ [][NextParser]_vars

RECURSIVE DigitsBefore(_, _)
\* the number of digits of s that end at position i
DigitsBefore(s, i) ==
    IF i \in 1..Len(s) /\ s[i] \in Digits THEN 1 + DigitsBefore(s, i - 1) ELSE 0

\* s ends in -i.<SHOPID>.<PRODUCTID> with numeric ids
EndsWithIds(s) ==
    LET p == DigitsBefore(s, Len(s))
        q == DigitsBefore(s, Len(s) - p - 1)
    IN  /\ p > 0
        /\ Len(s) - p >= 1 /\ s[Len(s) - p] = "."
        /\ q > 0
        /\ Len(s) - p - q - 1 >= 1 /\ s[Len(s) - p - q - 1] = "I"

\* the ids such a URL ends in
ShopIdOf(s) ==
    LET p == DigitsBefore(s, Len(s))
        q == DigitsBefore(s, Len(s) - p - 1)
    IN  SubSeq(s, Len(s) - p - q, Len(s) - p - 1)

ProductIdOf(s) == SubSeq(s, Len(s) - DigitsBefore(s, Len(s)) + 1, Len(s))

\* s is https://shopee.vn/<name>-i.<SHOPID>.<PRODUCTID>
OfShopeeForm(s) == Len(s) >= 1 /\ s[1] = "H" /\ EndsWithIds(s)

\* somewhere after https://shopee.vn/ s holds -i.<digits>.<digits>
ContainsIds(s) ==
    \E h \in 1..Len(s), j \in 1..Len(s) :
        h < j /\ s[h] = "H" /\ MatchesIdsAt(s, j)

\* a URL of the form has its ids extracted in the right order and put into
\* the right parameters of the API URL
IdsOfShopeeFormExtracted ==
    (parsed.called /\ OfShopeeForm(url)) =>
        /\ parsed.success
        /\ parsed.shop_id = ShopIdOf(url)
        /\ parsed.product_id = ProductIdOf(url)
        /\ apiUrl # <<>> =>
              apiUrl = <<"H", "api/v4/item/get?itemid=">> \o ProductIdOf(url)
                          \o <<"&shopid=">> \o ShopIdOf(url)

\* C21, as stated: every URL https://shopee.vn/<name>-i.<SHOPID>.<PRODUCTID>
\* with numeric ids is parsed with shop_id = SHOPID and product_id =
\* PRODUCTID, build_api_url puts them into itemid and shopid, and a URL
\* without such a suffix yields success = False.
C21_UrlParsedOrRejected ==
    /\ IdsOfShopeeFormExtracted
    /\ (parsed.called /\ ~EndsWithIds(url)) => ~parsed.success

\* C21, amended: the same, but success = False is what a URL yields that
\* nowhere holds -i.<digits>.<digits> after https://shopee.vn/; a URL that
\* goes on after the ids is parsed as well.
C21_UrlParsedOrRejectedUnlessIdsInside ==
    /\ IdsOfShopeeFormExtracted
    /\ parsed.called => (parsed.success <=> ContainsIds(url))
    /\ (parsed.called /\ parsed.success) =>
          /\ parsed.shop_id # <<>> /\ parsed.product_id # <<>>
          /\ \A i \in 1..Len(parsed.shop_id) : parsed.shop_id[i] \in Digits
          /\ \A i \in 1..Len(parsed.product_id) : parsed.product_id[i] \in Digits

\* a URL with a name and two different ids was parsed and its API URL built
C21_Witness ==
    /\ parsed.called
    /\ OfShopeeForm(url)
    /\ url[2] = "a"
    /\ ShopIdOf(url) # ProductIdOf(url)
    /\ apiUrl # <<>>

\* a URL that goes on after the ids was parsed successfully
C21_WitnessTrailing ==
    /\ parsed.called
    /\ parsed.success
    /\ ~EndsWithIds(url)

----------------------------------------------------------------------------
(* trackers/shopee_manager.py: ShopeeProductsManager.add_product *)

\* the field names add_product requires, in the order it checks them
RequiredFields == <<"shopee_product_id", "shop_id", "product_name">>

\* the dictionaries add_product is called with: each required key present or
\* absent, with or without a notification threshold
ProductData ==
    [shopee_product_id : ShopeeProductIds \cup {Absent},
     shop_id : {"s1", Absent},
     product_name : {"item", Absent},
     notification_threshold : ConfigThresholds]

\* the records the products table can hold
StoredProduct(id, status) ==
    [present |-> TRUE, tracker_type |-> "shopee", shopee_product_id |-> id,
     shop_id |-> "s1", product_name |-> "item",
     notification_threshold |-> NoneV, status |-> status]

\* shopee_manager.py imports typing, ShopeeTracker, DynamoDBClient and
\* logging; the name datetime, which add_product uses, is not among them
DatetimeImported == FALSE

\* the required fields that are not keys of product_data, in checking order
MissingFields(product_data) ==
    LET Missing(field) == product_data[field] = Absent
    IN  SelectSeq(RequiredFields, Missing)

\* fault injection: product_name is not among the required fields
MissingFieldUnlessName(product_data) ==
    LET Missing(field) == field # "product_name" /\ product_data[field] = Absent
        missing == SelectSeq(RequiredFields, Missing)
    IN  IF missing = <<>> THEN "" ELSE Head(missing)

\* the field the validation loop of add_product raises ValueError for, ""
\* when every required field is there
MissingField(product_data) ==
    IF MissingFields(product_data) = <<>> THEN ""
    ELSE Head(MissingFields(product_data))

\* the item add_product builds
ProductItem(product_data) ==
    [present |-> TRUE,
     tracker_type |-> "shopee",
     shopee_product_id |-> product_data.shopee_product_id,
     shop_id |-> product_data.shop_id,
     product_name |-> product_data.product_name,
     notification_threshold |->
         GetOr(product_data.notification_threshold, Num(ManagerDefaultThresholdPct)),
     status |-> "active"]

\* the exception raised while add_product builds the item, "" when none is:
\* a subscript of product_data that finds no key raises KeyError, and
\* datetime.now() raises NameError
ItemBuildError(product_data) ==
    IF MissingFields(product_data) # <<>>
    THEN "'" \o Head(MissingFields(product_data)) \o "'"
    ELSE IF ~DatetimeImported
    THEN "name 'datetime' is not defined"
    ELSE ""

ErrorResult(error) == [statusCode |-> 500, error |-> error, product_id |-> Absent]

\* DynamoDBClient.store_product: put_item replaces the record under the key
StoreProduct(table, item) ==
    [table EXCEPT !["shopee_" \o item.shopee_product_id] = item]

\* the products tables add_product can find: under each key no record, an
\* active one or an inactive one
ManagerInit ==
    /\ EngineInit
    /\ ParserIdle
    /\ RaceIdle
    /\ PipelineIdle
    /\ catalog \in
          [ProductKeys ->
              {NoProduct} \cup
              {StoredProduct(id, status) :
                   id \in ShopeeProductIds, status \in {"active", "inactive"}}]
    /\ \A id \in ShopeeProductIds :
          catalog["shopee_" \o id].present =>
              catalog["shopee_" \o id].shopee_product_id = id
    /\ addition = NoAddition

\* add_product(product_data), the store reachable or not
AddProduct ==
    /\ addition.pc = "idle"
    /\ \E product_data \in ProductData, storeOk \in BOOLEAN :
          LET called == MissingField(product_data) = "" /\ ItemBuildError(product_data) = ""
              result ==
                  IF MissingField(product_data) # ""
                  THEN ErrorResult("Missing required field: "
                                       \o MissingField(product_data))
                  ELSE IF ItemBuildError(product_data) # ""
                  THEN ErrorResult(ItemBuildError(product_data))
                  ELSE IF ~storeOk
                  THEN ErrorResult("Error storing product")
                  ELSE [statusCode |-> 200, error |-> "",
                        product_id |-> "shopee_" \o product_data.shopee_product_id]
          IN  /\ catalog' = IF called /\ storeOk
                            THEN StoreProduct(catalog, ProductItem(product_data))
                            ELSE catalog
              /\ addition' = [pc |-> "returned", product_data |-> product_data,
                              result |-> result,
                              storeCalls |-> IF called THEN 1 ELSE 0,
                              storeOk |-> storeOk, before |-> catalog]
    /\ UNCHANGED <<engineVars, parserVars, raceVars, pipelineVars>>

\* the caller has the result and may call again
AddProductExit ==
    /\ addition.pc = "returned"
    /\ addition' = NoAddition
    /\ UNCHANGED catalog
    /\ UNCHANGED <<engineVars, parserVars, raceVars, pipelineVars>>

NextManager ==
    \/ AddProduct
    \/ AddProductExit

SpecManager == ManagerInit /\ [][NextManager]_vars

\* C34: add_product called with product data missing a required field
\* returns a status-500 outcome naming a missing field, has not called
\* store_product and leaves the products table as it was
C34_MissingFieldRejected ==
    (addition.pc = "returned" /\ MissingFields(addition.product_data) # <<>>) =>
        /\ addition.result.statusCode = 500
        /\ \E k \in 1..Len(MissingFields(addition.product_data)) :
              addition.result.error =
                  "Missing required field: " \o MissingFields(addition.product_data)[k]
        /\ addition.storeCalls = 0
        /\ catalog = addition.before

\* add_product has answered product data that lack product_name alone, on a
\* table that holds a record
C34_Witness ==
    /\ addition.pc = "returned"
    /\ MissingFields(addition.product_data) = <<"product_name">>
    /\ addition.result.error = "Missing required field: product_name"
    /\ \E key \in ProductKeys : catalog[key].present

\* the records get_shopee_products asks for: active ones of type shopee
ActiveShopeeProducts(table) ==
    {key \in ProductKeys :
        /\ table[key].present
        /\ table[key].status = "active"
        /\ table[key].tracker_type = "shopee"}

\* C35: add_product called with all required fields while the store is
\* reachable writes one product record with status 'active', tracker_type
\* 'shopee' and key 'shopee_<shopee_product_id>', and returns status 200
\* with that key, so that the product is among the active Shopee products
C35_AddProductStores ==
    (/\ addition.pc = "returned"
     /\ MissingFields(addition.product_data) = <<>>
     /\ addition.storeOk) =>
        LET key == "shopee_" \o addition.product_data.shopee_product_id
        IN  /\ addition.result.statusCode = 200
            /\ addition.result.product_id = key
            /\ addition.storeCalls = 1
            /\ catalog[key] = ProductItem(addition.product_data)
            /\ key \in ActiveShopeeProducts(catalog)

\* what add_product does: it never reaches store_product, the products
\* table is never changed and no call returns status 200
AddProductNeverStores ==
    addition.pc = "returned" =>
        /\ addition.storeCalls = 0
        /\ catalog = addition.before
        /\ addition.result.statusCode = 500

====
